---- MODULE Spec2Model ----
(***************************************************************************)
(* NQ swing scalper: the backtest driver (nq_scalper/backtest_engine.py)   *)
(* and the live paper-trading path (nq_dashboard/backend/paper_trader.py,  *)
(* scheduler.py, indicator_engine.py) as state machines over a stream of   *)
(* feature bars.                                                           *)
(*                                                                         *)
(* Units.  Prices and distances are integers in eighths of a point, so the *)
(* 0.25-point tick is 2 units and sl_distance * 1.5 and * 0.5 are exact.   *)
(* Money is in cents.  Scores and thresholds are in hundredths.  A value   *)
(* that is not available (numpy NaN) is the number NaN below; arithmetic   *)
(* and comparisons on it follow IEEE (every comparison with NaN is false). *)
(***************************************************************************)
EXTENDS Integers, Sequences, FiniteSets, TLC

NaN == -999999

IsNaN(x) == x = NaN

FAdd(a, b) == IF IsNaN(a) \/ IsNaN(b) THEN NaN ELSE a + b
FSub(a, b) == IF IsNaN(a) \/ IsNaN(b) THEN NaN ELSE a - b
FLe(a, b) == ~IsNaN(a) /\ ~IsNaN(b) /\ a <= b
FLt(a, b) == ~IsNaN(a) /\ ~IsNaN(b) /\ a < b
FGe(a, b) == ~IsNaN(a) /\ ~IsNaN(b) /\ a >= b
FGt(a, b) == ~IsNaN(a) /\ ~IsNaN(b) /\ a > b

\* Python's max(a, b): a unless b > a.
PyMax(a, b) == IF FGt(b, a) THEN b ELSE a

Abs(x) == IF x < 0 THEN -x ELSE x

\* x * 1.5, x * 0.5 and x * 2.0 on distances (exact: distances are even).
Mul15(x) == IF IsNaN(x) THEN NaN ELSE (x * 3) \div 2
MulTenths(x, m) == IF IsNaN(x) THEN NaN ELSE (x * m) \div 10
Mul05(x) == IF IsNaN(x) THEN NaN ELSE x \div 2
Mul20(x) == IF IsNaN(x) THEN NaN ELSE x * 2

\* An Optional value: <<>> is None, <<v>> is the value v.
None == <<>>
Some(v) == <<v>>
IsNone(o) == o = <<>>
Get(o) == o[1]

(***************************************************************************)
(* config.py                                                               *)
(***************************************************************************)
TICK_SIZE == 2
Pt == 4 * TICK_SIZE
POINT_VALUE == 2000
TICK_VALUE == (TICK_SIZE * POINT_VALUE) \div Pt
NUM_CONTRACTS == 2
MAX_RISK_PER_CONTRACT == 80000
MAX_SL_POINTS == (MAX_RISK_PER_CONTRACT * Pt) \div POINT_VALUE
TP1_FIXED_PTS == 100 * Pt
TP1_MODE == "rr"
RR_RATIO_TP1 == 15
MIN_RR == 2
COMMISSION_PER_CONTRACT == 450
SLIPPAGE_TICKS == 1
SLIPPAGE_COST == SLIPPAGE_TICKS * TICK_VALUE
INITIAL_CAPITAL == 10000000
TRAILING_ATR_MULT == 20
USE_SUPERTREND_TRAILING == TRUE
WEDNESDAY_LONG_MIN_SCORE == 900
THURSDAY_MIN_SCORE == 900
EUROPE_MIN_SCORE == 850
COOLDOWN_BARS == 8
MIN_PRICE_CHANGE == 25
SHIFT_BLOCK_BARS == 4
EOD_CLOSE_HOUR == 16
EOD_CLOSE_MINUTE == 45

\* round(price, 2) of a price in eighths of a point, in hundredths of a point.
\* An odd number of eighths is an exact tie in binary floating point, which
\* Python rounds to the even hundredth (20000.125 -> 20000.12, .375 -> .38).
Round2(u) ==
  IF IsNaN(u) THEN NaN
  ELSE IF (25 * u) % 2 = 0 THEN (25 * u) \div 2
  ELSE LET f == (25 * u - 1) \div 2 IN IF f % 2 = 0 THEN f ELSE f + 1

\* (diff points) * POINT_VALUE * contracts, in cents.
Pnl(diff, contracts) == (diff * POINT_VALUE * contracts) \div Pt

(***************************************************************************)
(* risk_manager.py                                                         *)
(***************************************************************************)
\* calc_entry(close, tech_sl): None, or the entry parameters.
calc_entry(close, tech_sl) ==
  LET d0 == FSub(close, tech_sl) IN
  IF FLe(d0, 0) THEN None
  ELSE
    LET capped == FGt(d0, MAX_SL_POINTS)
        d1 == IF capped THEN MAX_SL_POINTS ELSE d0
        sl1 == IF capped THEN FSub(close, d1) ELSE tech_sl
        max_sl_dist == TP1_FIXED_PTS \div MIN_RR
        recap == TP1_MODE = "fixed" /\ FGt(d1, max_sl_dist)
        d2 == IF recap THEN max_sl_dist ELSE d1
        sl2 == IF recap THEN FSub(close, d2) ELSE sl1
        tp1 == IF TP1_MODE = "fixed" THEN FAdd(close, TP1_FIXED_PTS)
               ELSE FAdd(close, MulTenths(d2, RR_RATIO_TP1))
    IN Some([entry_price |-> close, stop_loss |-> sl2,
             sl_distance |-> d2, tp1_price |-> tp1])

\* calc_costs charging the runner's fills as those of a full position.
calc_costs_flat(tp1_hit) ==
  LET half_comm == COMMISSION_PER_CONTRACT \div 2 IN
  4 * half_comm + 2 * SLIPPAGE_COST

\* calc_costs(tp1_hit): commission + slippage, in cents.
calc_costs(tp1_hit) ==
  LET half_comm == COMMISSION_PER_CONTRACT \div 2 IN
  IF tp1_hit THEN 6 * half_comm + 4 * SLIPPAGE_COST
  ELSE 4 * half_comm + 2 * SLIPPAGE_COST

(***************************************************************************)
(* trailing.py: TrailingStop                                               *)
(***************************************************************************)
\* A TrailingStop that starts at the initial stop instead of the entry price.
TrailingStop_at_stop(entry_price, sl_distance) ==
  [entry_price |-> entry_price, sl_distance |-> sl_distance,
   trail_stop |-> FSub(entry_price, sl_distance), stage |-> 1]

TrailingStop(entry_price, sl_distance) ==
  [entry_price |-> entry_price, sl_distance |-> sl_distance,
   trail_stop |-> entry_price, stage |-> 1]

\* update whose stage-3 step assigns the new trail without the ratchet.
TrailingStop_update_no_ratchet(self, bar_close, atr, st_line, st_bullish) ==
  LET current_profit == FSub(bar_close, self.entry_price)
      s1 == IF self.stage = 1 /\ FGe(current_profit, Mul15(self.sl_distance))
            THEN [self EXCEPT !.stage = 2,
                    !.trail_stop = PyMax(self.trail_stop,
                        FAdd(self.entry_price, Mul05(self.sl_distance)))]
            ELSE self
      s2 == IF s1.stage = 2 /\ FGe(current_profit, Mul20(self.sl_distance))
            THEN [s1 EXCEPT !.stage = 3]
            ELSE s1
  IN IF s2.stage = 3 /\ ~IsNaN(atr)
     THEN LET atr_trail == FSub(bar_close, MulTenths(atr, TRAILING_ATR_MULT))
              st_trail == IF USE_SUPERTREND_TRAILING /\ st_bullish /\ ~IsNaN(st_line)
                          THEN st_line ELSE atr_trail
              new_trail == PyMax(PyMax(atr_trail, st_trail), self.entry_price)
          IN [s2 EXCEPT !.trail_stop = new_trail]
     ELSE s2

\* update that takes at most one stage transition per call.
TrailingStop_update_one_stage(self, bar_close, atr, st_line, st_bullish) ==
  LET current_profit == FSub(bar_close, self.entry_price)
      s2 == IF self.stage = 1 /\ FGe(current_profit, Mul15(self.sl_distance))
            THEN [self EXCEPT !.stage = 2,
                    !.trail_stop = PyMax(self.trail_stop,
                        FAdd(self.entry_price, Mul05(self.sl_distance)))]
            ELSE IF self.stage = 2 /\ FGe(current_profit, Mul20(self.sl_distance))
            THEN [self EXCEPT !.stage = 3]
            ELSE self
  IN IF s2.stage = 3 /\ ~IsNaN(atr)
     THEN LET atr_trail == FSub(bar_close, MulTenths(atr, TRAILING_ATR_MULT))
              st_trail == IF USE_SUPERTREND_TRAILING /\ st_bullish /\ ~IsNaN(st_line)
                          THEN st_line ELSE atr_trail
              new_trail == PyMax(PyMax(atr_trail, st_trail), self.entry_price)
          IN [s2 EXCEPT !.trail_stop = PyMax(s2.trail_stop, new_trail)]
     ELSE s2

\* TrailingStop.update(bar_close, atr, st_line, st_bullish): the new object.
TrailingStop_update(self, bar_close, atr, st_line, st_bullish) ==
  LET current_profit == FSub(bar_close, self.entry_price)
      s1 == IF self.stage = 1 /\ FGe(current_profit, Mul15(self.sl_distance))
            THEN [self EXCEPT !.stage = 2,
                    !.trail_stop = PyMax(self.trail_stop,
                        FAdd(self.entry_price, Mul05(self.sl_distance)))]
            ELSE self
      s2 == IF s1.stage = 2 /\ FGe(current_profit, Mul20(self.sl_distance))
            THEN [s1 EXCEPT !.stage = 3]
            ELSE s1
  IN IF s2.stage = 3 /\ ~IsNaN(atr)
     THEN LET atr_trail == FSub(bar_close, MulTenths(atr, TRAILING_ATR_MULT))
              st_trail == IF USE_SUPERTREND_TRAILING /\ st_bullish /\ ~IsNaN(st_line)
                          THEN st_line ELSE atr_trail
              new_trail == PyMax(PyMax(atr_trail, st_trail), self.entry_price)
          IN [s2 EXCEPT !.trail_stop = PyMax(s2.trail_stop, new_trail)]
     ELSE s2

TrailingStop_is_stopped(self, bar_low) == FLe(bar_low, self.trail_stop)

(***************************************************************************)
(* signals.py: CooldownTracker, check_long_signal                          *)
(***************************************************************************)
CooldownTracker == [last_trade_bar |-> -999, last_trade_price |-> 0]

CooldownTracker_update(self, bar_idx, entry_price) ==
  [last_trade_bar |-> bar_idx, last_trade_price |-> entry_price]

\* abs(close - p) / p * 100 >= MIN_PRICE_CHANGE, for p > 0.
PctMoveReached(close, p) ==
  ~IsNaN(close) /\ ~IsNaN(p) /\ Abs(close - p) * 100 * 100 >= MIN_PRICE_CHANGE * p

\* is_ready with the bar count compared by > instead of >=.
CooldownTracker_is_ready_late(self, bar_idx, close, is_shift_override) ==
  IF is_shift_override THEN TRUE
  ELSE IF bar_idx - self.last_trade_bar > COOLDOWN_BARS THEN TRUE
  ELSE IF FGt(self.last_trade_price, 0) /\ PctMoveReached(close, self.last_trade_price)
       THEN TRUE
  ELSE FALSE

CooldownTracker_is_ready(self, bar_idx, close, is_shift_override) ==
  IF is_shift_override THEN TRUE
  ELSE IF bar_idx - self.last_trade_bar >= COOLDOWN_BARS THEN TRUE
  ELSE IF FGt(self.last_trade_price, 0) /\ PctMoveReached(close, self.last_trade_price)
       THEN TRUE
  ELSE FALSE

\* check_long_signal without the Europe session floor.
check_long_signal_no_europe_floor(bar_idx, long_score, effective_thresh, longs_blocked, ema_slope_bull, et_dow, cooldown, close, is_shift_override, session) ==
  IF IsNaN(long_score) \/ IsNaN(effective_thresh) THEN FALSE
  ELSE IF longs_blocked THEN FALSE
  ELSE IF ~ema_slope_bull THEN FALSE
  ELSE IF FLt(long_score, effective_thresh) THEN FALSE
  ELSE IF et_dow = 2 /\ FLt(long_score, WEDNESDAY_LONG_MIN_SCORE) THEN FALSE
  ELSE IF et_dow = 3 /\ FLt(long_score, THURSDAY_MIN_SCORE) THEN FALSE
  ELSE IF ~CooldownTracker_is_ready(cooldown, bar_idx, close, is_shift_override)
       THEN FALSE
  ELSE TRUE

check_long_signal(bar_idx, long_score, effective_thresh, longs_blocked, ema_slope_bull, et_dow, cooldown, close, is_shift_override, session) ==
  IF IsNaN(long_score) \/ IsNaN(effective_thresh) THEN FALSE
  ELSE IF longs_blocked THEN FALSE
  ELSE IF ~ema_slope_bull THEN FALSE
  ELSE IF FLt(long_score, effective_thresh) THEN FALSE
  ELSE IF et_dow = 2 /\ FLt(long_score, WEDNESDAY_LONG_MIN_SCORE) THEN FALSE
  ELSE IF et_dow = 3 /\ FLt(long_score, THURSDAY_MIN_SCORE) THEN FALSE
  ELSE IF session = "Europe" /\ FLt(long_score, EUROPE_MIN_SCORE) THEN FALSE
  ELSE IF ~CooldownTracker_is_ready(cooldown, bar_idx, close, is_shift_override)
       THEN FALSE
  ELSE TRUE

(***************************************************************************)
(* indicators.py, patterns.py: the per-bar columns the drivers consume     *)
(***************************************************************************)
\* get_session_labels: the label of a bar from its US/Eastern hour and minute.
\* The assignments are applied in order, a later one overwriting an earlier.
get_session_labels(hours, minutes) ==
  IF hours = 17 THEN "Maintenance"
  ELSE IF hours >= 16 /\ hours < 17 THEN "After Hours"
  ELSE IF (hours = 9 /\ minutes >= 30) \/ (hours >= 10 /\ hours < 16) THEN "US"
  ELSE IF hours >= 2 /\ (hours < 9 \/ (hours = 9 /\ minutes < 30)) THEN "Europe"
  ELSE IF hours >= 18 \/ hours < 2 THEN "Asia"
  ELSE "Closed"

\* The blocking window one bar short.
longs_blocked_at_short(prev) ==
  \E k \in 1..(SHIFT_BLOCK_BARS - 1) : k <= Len(prev) /\ prev[Len(prev) - k + 1]

\* longs_blocked of a bar: is_bearish_shift_candle.shift(k).fillna(False) for
\* some k in 1..SHIFT_BLOCK_BARS.  prev is the is_bearish_shift_candle column
\* of the bars before this one, oldest first.
longs_blocked_at(prev) ==
  \E k \in 1..SHIFT_BLOCK_BARS : k <= Len(prev) /\ prev[Len(prev) - k + 1]

\* The part of the column that later rows still read.
ShiftTail(col) ==
  IF Len(col) <= SHIFT_BLOCK_BARS THEN col
  ELSE SubSeq(col, Len(col) - SHIFT_BLOCK_BARS + 1, Len(col))

(***************************************************************************)
(* scoring.py: confirmations, dynamic threshold, session penalty, ATR      *)
(* percentile adjustment.  ADX, DI and the ATR percentile are in           *)
(* hundredths, as are the thresholds.                                      *)
(***************************************************************************)
\* Series.astype(int) of a boolean column.
AsInt(flag) == IF flag THEN 1 ELSE 0

precompute_long_confirmations(row) == AsInt(row.st_bullish) + AsInt(FGt(row.adx, 3000) /\ FGt(row.di_plus, row.di_minus)) + AsInt(row.vol_above) + AsInt(row.mtf_bullish \/ row.mtf4h_bullish)

\* The threshold table with the 0.25 steps of the earlier version.
precompute_dynamic_thresholds_narrow(confirmations) ==
  IF confirmations >= 4 THEN 700
  ELSE IF confirmations = 3 THEN 725
  ELSE IF confirmations = 2 THEN 750
  ELSE IF confirmations = 1 THEN 775
  ELSE 800

\* np.select: the first condition that holds decides, else the default.
precompute_dynamic_thresholds(confirmations) ==
  IF confirmations >= 4 THEN 700
  ELSE IF confirmations = 3 THEN 750
  ELSE IF confirmations = 2 THEN 800
  ELSE IF confirmations = 1 THEN 850
  ELSE 900

\* Three masked assignments on a series of 0.0, in the order of the code; a
\* mask is false where the percentile is NaN.
precompute_atr_adjustments(atr_pctile) ==
  LET adj0 == 0
      adj1 == IF FGt(atr_pctile, 8000) THEN 50 ELSE adj0
      adj2 == IF FGt(atr_pctile, 6500) /\ FLe(atr_pctile, 8000) THEN 25 ELSE adj1
  IN IF FLt(atr_pctile, 2000) THEN -25 ELSE adj2

precompute_session_penalty(session) ==
  IF session = "Europe" THEN 100
  ELSE IF session = "Asia" THEN 200
  ELSE IF session = "US" THEN 100
  ELSE 100

\* The threshold columns precompute_all_scores adds to a row.
precompute_all_scores(row) ==
  LET long_confirms == precompute_long_confirmations(row)
      long_thresh == precompute_dynamic_thresholds(long_confirms)
      session_penalty == precompute_session_penalty(row.session)
      atr_adj == precompute_atr_adjustments(row.atr_pctile)
  IN [long_confirms |-> long_confirms, long_thresh |-> long_thresh,
      session_penalty |-> session_penalty, atr_adj |-> atr_adj,
      effective_thresh |-> long_thresh + session_penalty + atr_adj]

(***************************************************************************)
(* indicators.py, patterns.py, mtf.py on a whole frame.  A frame df is a   *)
(* sequence of 15-minute bars, oldest first; df[i].t is the bar's open     *)
(* time counted in 15-minute slots from a Monday 00:00.                    *)
(***************************************************************************)
ST_PERIOD == 10
ST_MULTIPLIER == 3
PIVOT_LOOKBACK == 10

Max2(a, b) == IF a >= b THEN a ELSE b
Min2(a, b) == IF a <= b THEN a ELSE b

\* The session label of the bar that opens in slot t.
SessionAt(t) == get_session_labels((t % 96) \div 4, (t % 4) * 15)

\* calc_supertrend up to the end of its loop: the final bands, the line and
\* the direction of every bar.  The rolling mean is kept to the unit.
calc_supertrend_loop(df, period, multiplier) ==
  LET n == Len(df)
      tr[i \in 1..n] ==
        IF i = 1 THEN df[1].High - df[1].Low
        ELSE Max2(df[i].High - df[i].Low,
                  Max2(Abs(df[i].High - df[i - 1].Close), Abs(df[i].Low - df[i - 1].Close)))
      first(i) == Max2(1, i - period + 1)
      sum[i \in 1..n, k \in 0..n] == IF k < first(i) THEN 0 ELSE tr[k] + sum[i, k - 1]
      atr(i) == sum[i, i] \div (i - first(i) + 1)
      hl2(i) == (df[i].High + df[i].Low) \div 2
      basic_upper(i) == hl2(i) + multiplier * atr(i)
      basic_lower(i) == hl2(i) - multiplier * atr(i)
      loop[i \in 1..n] ==
        IF i = 1
        THEN [final_upper |-> basic_upper(1), final_lower |-> basic_lower(1),
              st_line |-> basic_upper(1), direction |-> 1]
        ELSE LET p == loop[i - 1]
                 fu == IF basic_upper(i) < p.final_upper \/ df[i - 1].Close > p.final_upper
                       THEN basic_upper(i) ELSE p.final_upper
                 fl == IF basic_lower(i) > p.final_lower \/ df[i - 1].Close < p.final_lower
                       THEN basic_lower(i) ELSE p.final_lower
             IN IF p.st_line = p.final_upper
                THEN IF df[i].Close <= fu
                     THEN [final_upper |-> fu, final_lower |-> fl, st_line |-> fu, direction |-> 1]
                     ELSE [final_upper |-> fu, final_lower |-> fl, st_line |-> fl, direction |-> -1]
                ELSE IF df[i].Close >= fl
                     THEN [final_upper |-> fu, final_lower |-> fl, st_line |-> fl, direction |-> -1]
                     ELSE [final_upper |-> fu, final_lower |-> fl, st_line |-> fu, direction |-> 1]
  IN [i \in 1..n |-> loop[i]]

\* calc_supertrend: (st_line, st_direction) of every bar.
calc_supertrend(df, period, multiplier) ==
  LET loop == calc_supertrend_loop(df, period, multiplier)
  IN [i \in 1..Len(df) |-> [st_line |-> loop[i].st_line, st_dir |-> loop[i].direction]]

\* _precompute_session_ranges with the high of the session a bar is in, as
\* it stands at the end of the frame, in place of the previous session's.
precompute_session_ranges_whole(df) ==
  [i \in 1..Len(df) |->
     LET same == { k \in 1..Len(df) : SessionAt(df[k].t) = SessionAt(df[i].t) }
         top == CHOOSE k \in same : \A j \in same : df[j].High <= df[k].High
         bot == CHOOSE k \in same : \A j \in same : df[j].Low >= df[k].Low
     IN [prev_sess_high |-> df[top].High, prev_sess_low |-> df[bot].Low]]

\* _precompute_session_ranges: one pass over the frame.
precompute_session_ranges(df) ==
  LET n == Len(df)
      loop[i \in 0..n] ==
        IF i = 0
        THEN [curr_sess |-> "", curr_high |-> NaN, curr_low |-> NaN,
              last_sess_high |-> NaN, last_sess_low |-> NaN]
        ELSE LET p == loop[i - 1]
                 s == SessionAt(df[i].t)
             IN IF s # p.curr_sess /\ s \notin {"Maintenance", "Closed", "After Hours"}
                THEN [curr_sess |-> s, curr_high |-> df[i].High, curr_low |-> df[i].Low,
                      last_sess_high |-> IF ~IsNaN(p.curr_high) THEN p.curr_high ELSE p.last_sess_high,
                      last_sess_low |-> IF ~IsNaN(p.curr_high) THEN p.curr_low ELSE p.last_sess_low]
                ELSE IF s = p.curr_sess
                THEN IF IsNaN(p.curr_high)
                     THEN [p EXCEPT !.curr_high = df[i].High, !.curr_low = df[i].Low]
                     ELSE [p EXCEPT !.curr_high = Max2(p.curr_high, df[i].High),
                                    !.curr_low = Min2(p.curr_low, df[i].Low)]
                ELSE p
  IN [i \in 1..n |-> [prev_sess_high |-> loop[i].last_sess_high,
                      prev_sess_low |-> loop[i].last_sess_low]]

\* The longs_blocked column of precompute_patterns.
precompute_longs_blocked(df) ==
  [i \in 1..Len(df) |->
     longs_blocked_at([k \in 1..(i - 1) |-> df[k].is_bearish_shift_candle])]

\* DataFrame.resample(rule): the bucket of a slot and the label of a bucket.
\* "1h", "4h" and "D" label a bucket by its left edge; "W" is the week from
\* Monday to Sunday, labelled by its last day (Sunday 00:00).
BucketOf(t, rule) ==
  CASE rule = "1h" -> t \div 4
    [] rule = "4h" -> t \div 16
    [] rule = "D" -> t \div 96
    [] rule = "W" -> t \div 672

LabelOf(k, rule) ==
  CASE rule = "1h" -> 4 * k
    [] rule = "4h" -> 16 * k
    [] rule = "D" -> 96 * k
    [] rule = "W" -> 672 * k + 576

\* resample(rule).agg(first/max/min/last).dropna(): one row per bucket that
\* holds a bar, oldest first.  bars is the set of base bars aggregated.
resample(df, rule) ==
  LET n == Len(df)
      starts == { i \in 1..n : i = 1 \/ BucketOf(df[i - 1].t, rule) # BucketOf(df[i].t, rule) }
      nth[j \in 1..Cardinality(starts)] ==
        IF j = 1 THEN 1 ELSE CHOOSE i \in starts : i > nth[j - 1] /\ \A x \in starts : x > nth[j - 1] => i <= x
      agg(lo) ==
        LET k == BucketOf(df[lo].t, rule)
            bars == { i \in 1..n : BucketOf(df[i].t, rule) = k }
            hi == CHOOSE i \in bars : \A x \in bars : x <= i
            top == CHOOSE i \in bars : \A x \in bars : df[x].High <= df[i].High
            bot == CHOOSE i \in bars : \A x \in bars : df[x].Low >= df[i].Low
        IN [label |-> LabelOf(k, rule), bucket |-> k, bars |-> bars,
            High |-> df[top].High, Low |-> df[bot].Low, Close |-> df[hi].Close]
  IN [j \in 1..Cardinality(starts) |-> agg(nth[j])]

\* The merged columns of a base bar that no coarser row reaches.
NoRow == [High |-> NaN, Low |-> NaN, Close |-> NaN, prev_high |-> NaN, prev_low |-> NaN, prev_close |-> NaN, bars |-> {}, upto |-> 0]

\* compute_daily_mtf and the weekly columns of build_mtf: the previous row's
\* high, low and close as columns of a row (Series.shift(1)).  upto is the
\* number of the coarser row the values were computed on.
with_prev(df_higher) ==
  [j \in 1..Len(df_higher) |->
     [High |-> df_higher[j].High, Low |-> df_higher[j].Low, Close |-> df_higher[j].Close,
      prev_high |-> IF j = 1 THEN NaN ELSE df_higher[j - 1].High,
      prev_low |-> IF j = 1 THEN NaN ELSE df_higher[j - 1].Low,
      prev_close |-> IF j = 1 THEN NaN ELSE df_higher[j - 1].Close,
      bars |-> df_higher[j].bars, upto |-> j]]

\* merge_mtf without the shift: the as-of join alone.
merge_mtf_unlagged(df_base, df_higher, cols) ==
  [i \in 1..Len(df_base) |->
     LET upto == { j \in 1..Len(df_higher) : df_higher[j].label <= df_base[i].t }
     IN IF upto = {} THEN NoRow
        ELSE cols[CHOOSE j \in upto : \A x \in upto : x <= j]]

\* merge_mtf: df_higher[cols].shift(1), then merge_asof(direction="backward")
\* on the index: a base bar takes the lagged row of the latest label at or
\* before its own time.
merge_mtf(df_base, df_higher, cols) ==
  LET df_lagged == [j \in 1..Len(df_higher) |-> IF j = 1 THEN NoRow ELSE cols[j - 1]]
  IN [i \in 1..Len(df_base) |->
        LET upto == { j \in 1..Len(df_higher) : df_higher[j].label <= df_base[i].t }
        IN IF upto = {} THEN NoRow
           ELSE df_lagged[CHOOSE j \in upto : \A x \in upto : x <= j]]

\* build_mtf: the four resampled frames merged onto the base bars.  The EMA
\* columns come from the ta library; an EMA of a coarser row is a function of
\* the closes of the rows up to it, so the merged EMA columns are represented
\* by the number of the row they were computed on (upto) and the base bars
\* of that row (bars).
build_mtf(df_15m) ==
  LET df_1h == resample(df_15m, "1h")
      df_4h == resample(df_15m, "4h")
      df_d == resample(df_15m, "D")
      df_w == resample(df_15m, "W")
      m1h == merge_mtf(df_15m, df_1h, with_prev(df_1h))
      m4h == merge_mtf(df_15m, df_4h, with_prev(df_4h))
      md == merge_mtf(df_15m, df_d, with_prev(df_d))
      mw == merge_mtf(df_15m, df_w, with_prev(df_w))
  IN [i \in 1..Len(df_15m) |->
        [mtf1h_close |-> m1h[i].Close, mtf1h_ema |-> [upto |-> m1h[i].upto, bars |-> m1h[i].bars],
         mtf4h_close |-> m4h[i].Close, mtf4h_ema |-> [upto |-> m4h[i].upto, bars |-> m4h[i].bars],
         daily_ema |-> [upto |-> md[i].upto, bars |-> md[i].bars],
         prev_day_high |-> md[i].prev_high, prev_day_low |-> md[i].prev_low,
         prev_day_close |-> md[i].prev_close,
         prev_week_high |-> mw[i].prev_high, prev_week_low |-> mw[i].prev_low,
         weekly |-> [upto |-> mw[i].upto, bars |-> mw[i].bars]]]

\* precompute_long_scores on one row (weights in hundredths).
precompute_long_scores(row) ==
  LET W(flag, w) == IF flag THEN w ELSE 0
      sess_bonus == IF row.session = "US" THEN 30 ELSE IF row.session = "Asia" THEN -30 ELSE 0
      ls == W(row.primary_bull, 100) + W(row.mtf_bullish, 80) + W(row.mtf4h_bullish, 80)
            + W(row.st_bullish, 60) + W(row.daily_bullish, 30)
            + (IF row.vol_spike THEN 250 ELSE IF row.vol_above THEN 150 ELSE 0)
            + W(row.vol_weak, -50)
            + W(row.bull_breakout /\ row.vol_above, 80) + W(row.near_support, 40)
            + W(row.bull_cons_breakout, 40) + W(row.near_daily_level, 40)
            + W(FGe(row.rsi, 3500) /\ FLe(row.rsi, 6500), 50)
            + W(FGt(row.macd_line, row.macd_signal), 50)
            + W(FGt(row.adx, 2000) /\ FGt(row.di_plus, row.di_minus), 50)
            + W(row.hammer_confirm, 70) + W(row.morning_star, 70) + W(row.bull_engulf, 50)
            + W(row.bull_cons_breakout, 40) + W(row.bull_shift, 40)
            + W(row.st_flip /\ row.st_bullish, 50) + W(row.bull_sess_break, 50)
            + sess_bonus
            + W(FLt(row.adx, 2000), -50)
            + W(FGt(row.rsi, 7500) \/ FLt(row.rsi, 2500), -50)
            + W(row.long_blocked, -150) + W(row.st_bearish, -50)
            + W(row.near_resist /\ ~row.bull_breakout, -30) + W(row.vol_declining, -30)
  IN Max2(0, Min2(ls, 1000))

\* precompute_tech_sl on one row; low_n is the rolling minimum of Low over
\* the last PIVOT_LOOKBACK bars.  np.minimum and np.maximum give NaN when an
\* argument is NaN.
precompute_tech_sl(row, low_n) ==
  LET other == IF row.st_bullish THEN row.st_line ELSE FSub(row.Low, row.atr)
      tech_sl == IF IsNaN(other) THEN NaN ELSE Min2(low_n, other)
  IN IF IsNaN(tech_sl) THEN NaN ELSE Max2(tech_sl, row.Close - MAX_SL_POINTS)

\* prepare_data: the frame the drivers consume, computed from the raw bars.
\* A raw bar carries, besides its prices, the columns that the ta library
\* and the candle arithmetic of precompute_patterns give it (ind).
prepare_data(df_15m) ==
  LET n == Len(df_15m)
      st == calc_supertrend(df_15m, ST_PERIOD, ST_MULTIPLIER)
      mtf == build_mtf(df_15m)
      sess == precompute_session_ranges(df_15m)
      blocked == precompute_longs_blocked(df_15m)
      low_n(i) == LET w == { k \in 1..n : k <= i /\ k > i - PIVOT_LOOKBACK }
                  IN df_15m[CHOOSE k \in w : \A x \in w : df_15m[x].Low >= df_15m[k].Low].Low
  IN [i \in 1..n |->
        LET st_bullish == st[i].st_dir = -1
            row == df_15m[i].ind @@
                   [Close |-> df_15m[i].Close, High |-> df_15m[i].High, Low |-> df_15m[i].Low,
                    session |-> SessionAt(df_15m[i].t),
                    st_line |-> st[i].st_line, st_bullish |-> st_bullish,
                    st_bearish |-> st[i].st_dir = 1,
                    st_flip |-> IF i = 1 THEN TRUE ELSE st_bullish # (st[i - 1].st_dir = -1),
                    long_blocked |-> blocked[i]]
        IN [t |-> df_15m[i].t, st_line |-> st[i].st_line, st_dir |-> st[i].st_dir,
            longs_blocked |-> blocked[i],
            prev_sess_high |-> sess[i].prev_sess_high, prev_sess_low |-> sess[i].prev_sess_low,
            mtf |-> mtf[i],
            long_score |-> precompute_long_scores(row),
            effective_thresh |-> precompute_all_scores(row).effective_thresh,
            tech_sl_long |-> precompute_tech_sl(row, low_n(i))]]

(***************************************************************************)
(* backtest_engine.py                                                      *)
(***************************************************************************)
\* A timestamp of the bar index: t is its position in the series, weekday the
\* weekday of the stored (naive UTC) value, et_* its US/Eastern reading.
get_et_time(ts) == [hour |-> ts.et_hour, minute |-> ts.et_minute, dow |-> ts.et_dow]

is_eod(hour, minute) == hour = EOD_CLOSE_HOUR /\ minute >= EOD_CLOSE_MINUTE

\* is_maintenance that knows no maintenance hour.
is_maintenance_never(hour) == FALSE

is_maintenance(hour) == hour = 17

\* A Position that starts as a runner: one contract, tp1_hit set.
Position_as_runner(entry_price, stop_loss, sl_distance, tp1_price, entry_bar, entry_time, entry_score, entry_session) ==
  [entry_price |-> entry_price, stop_loss |-> stop_loss,
   sl_distance |-> sl_distance, tp1_price |-> tp1_price,
   entry_bar |-> entry_bar, entry_time |-> entry_time,
   entry_score |-> entry_score, entry_session |-> entry_session,
   tp1_hit |-> TRUE, contracts |-> 1,
   trailing |-> Some(TrailingStop(entry_price, sl_distance))]

Position(entry_price, stop_loss, sl_distance, tp1_price, entry_bar, entry_time, entry_score, entry_session) ==
  [entry_price |-> entry_price, stop_loss |-> stop_loss,
   sl_distance |-> sl_distance, tp1_price |-> tp1_price,
   entry_bar |-> entry_bar, entry_time |-> entry_time,
   entry_score |-> entry_score, entry_session |-> entry_session,
   tp1_hit |-> FALSE, contracts |-> NUM_CONTRACTS, trailing |-> None]

\* BacktestEngine.__init__; i is the loop index of run, calls the methods the
\* latest iteration invoked, each with whether a position was open at the call.
BacktestEngine ==
  [position |-> None, cooldown |-> CooldownTracker, trades |-> <<>>,
   trade_count |-> 0, capital |-> INITIAL_CAPITAL, equity_curve |-> <<>>,
   i |-> 0, calls |-> <<>>]

Called(self, name) ==
  [self EXCEPT !.calls = Append(@, [op |-> name, open |-> ~IsNone(self.position)])]

\* _log_trade adding the gross result of the trade to the capital.
BT_log_trade_gross(self, exit_price, exit_time, exit_reason, pnl_tp1, pnl_runner, costs, tp1_hit, trail_stage) ==
  LET pos == Get(self.position)
      total_pnl == pnl_tp1 + pnl_runner - costs
      capital == self.capital + pnl_tp1 + pnl_runner
      trade == [trade_num |-> self.trade_count,
                entry_time |-> pos.entry_time,
                entry_price |-> Round2(pos.entry_price),
                stop_loss |-> Round2(pos.stop_loss),
                sl_distance_pts |-> Round2(pos.sl_distance),
                tp1_price |-> Round2(pos.tp1_price),
                tp1_hit |-> tp1_hit,
                trail_stage |-> trail_stage,
                exit_time |-> exit_time,
                exit_price |-> Round2(exit_price),
                exit_reason |-> exit_reason,
                entry_score |-> pos.entry_score,
                entry_session |-> pos.entry_session,
                pnl_tp1 |-> pnl_tp1,
                pnl_runner |-> pnl_runner,
                costs |-> costs,
                total_pnl |-> total_pnl,
                capital_after |-> capital]
  IN [self EXCEPT !.capital = capital, !.trades = Append(@, trade)]

\* _log_trade: money is whole cents, so round(x, 2) leaves it as it is.
BT_log_trade(self, exit_price, exit_time, exit_reason, pnl_tp1, pnl_runner, costs, tp1_hit, trail_stage) ==
  LET pos == Get(self.position)
      total_pnl == pnl_tp1 + pnl_runner - costs
      capital == self.capital + total_pnl
      trade == [trade_num |-> self.trade_count,
                entry_time |-> pos.entry_time,
                entry_price |-> Round2(pos.entry_price),
                stop_loss |-> Round2(pos.stop_loss),
                sl_distance_pts |-> Round2(pos.sl_distance),
                tp1_price |-> Round2(pos.tp1_price),
                tp1_hit |-> tp1_hit,
                trail_stage |-> trail_stage,
                exit_time |-> exit_time,
                exit_price |-> Round2(exit_price),
                exit_reason |-> exit_reason,
                entry_score |-> pos.entry_score,
                entry_session |-> pos.entry_session,
                pnl_tp1 |-> pnl_tp1,
                pnl_runner |-> pnl_runner,
                costs |-> costs,
                total_pnl |-> total_pnl,
                capital_after |-> capital]
  IN [self EXCEPT !.capital = capital, !.trades = Append(@, trade)]

BT_enter_long(self, i, entry, score, time, session) ==
  LET s == Called(self, "_enter_long") IN
  [s EXCEPT
     !.position = Some(Position(entry.entry_price, entry.stop_loss,
                                entry.sl_distance, entry.tp1_price, i, time,
                                score, session)),
     !.cooldown = CooldownTracker_update(self.cooldown, i, entry.entry_price),
     !.trade_count = @ + 1]

\* The exit reason of a runner's exit written as that of a full stop.
TrailNameAsFullStop(stage) == "FULL_STOP"

TrailName(stage) ==
  IF stage = 1 THEN "TRAIL_S1" ELSE IF stage = 2 THEN "TRAIL_S2" ELSE "TRAIL_S3"

\* _manage_position testing the new runner's stop on the bar of the partial
\* exit.
BT_manage_position_same_bar(self0, i, bar) ==
  LET self == Called(self0, "_manage_position")
      pos == Get(self.position)
      runner == IF ~pos.tp1_hit /\ ~FLe(bar.Low, pos.stop_loss) /\ FGe(bar.High, pos.tp1_price)
                THEN [pos EXCEPT !.tp1_hit = TRUE, !.contracts = 1,
                        !.trailing = Some(TrailingStop(pos.entry_price, pos.sl_distance))]
                ELSE pos
  IN
  IF ~pos.tp1_hit /\ FLe(bar.Low, pos.stop_loss) THEN
    LET exit_price == pos.stop_loss
        pnl == Pnl(exit_price - pos.entry_price, NUM_CONTRACTS)
        logged == BT_log_trade(self, exit_price, bar.ts, "FULL_STOP", 0, pnl,
                               calc_costs(FALSE), FALSE, 0)
    IN [logged EXCEPT !.position = None]
  ELSE IF ~runner.tp1_hit THEN self
  ELSE
    LET trail == TrailingStop_update(Get(runner.trailing), bar.Close, bar.atr,
                                     bar.st_line, bar.st_bullish)
        upd == [self EXCEPT !.position = Some([runner EXCEPT !.trailing = Some(trail)])]
    IN
    IF TrailingStop_is_stopped(trail, bar.Low) THEN
      LET exit_price == trail.trail_stop
          pnl_tp1 == Pnl(runner.tp1_price - runner.entry_price, 1)
          pnl_runner == Pnl(exit_price - runner.entry_price, 1)
          logged == BT_log_trade(upd, exit_price, bar.ts, TrailName(trail.stage),
                                 pnl_tp1, pnl_runner, calc_costs(TRUE), TRUE,
                                 trail.stage)
      IN [logged EXCEPT !.position = None]
    ELSE upd

\* _manage_position testing the take-profit level before the stop.
BT_manage_position_tp_first(self0, i, bar) ==
  LET self == Called(self0, "_manage_position")
      pos == Get(self.position)
  IN
  IF ~pos.tp1_hit THEN
    IF FGe(bar.High, pos.tp1_price) THEN
      [self EXCEPT !.position = Some([pos EXCEPT
          !.tp1_hit = TRUE, !.contracts = 1,
          !.trailing = Some(TrailingStop(pos.entry_price, pos.sl_distance))])]
    ELSE IF FLe(bar.Low, pos.stop_loss) THEN
      LET exit_price == pos.stop_loss
          pnl == Pnl(exit_price - pos.entry_price, NUM_CONTRACTS)
          logged == BT_log_trade(self, exit_price, bar.ts, "FULL_STOP", 0, pnl,
                                 calc_costs(FALSE), FALSE, 0)
      IN [logged EXCEPT !.position = None]
    ELSE self
  ELSE
    LET trail == TrailingStop_update(Get(pos.trailing), bar.Close, bar.atr,
                                     bar.st_line, bar.st_bullish)
        upd == [self EXCEPT !.position = Some([pos EXCEPT !.trailing = Some(trail)])]
    IN
    IF TrailingStop_is_stopped(trail, bar.Low) THEN
      LET exit_price == trail.trail_stop
          pnl_tp1 == Pnl(pos.tp1_price - pos.entry_price, 1)
          pnl_runner == Pnl(exit_price - pos.entry_price, 1)
          logged == BT_log_trade(upd, exit_price, bar.ts, TrailName(trail.stage),
                                 pnl_tp1, pnl_runner, calc_costs(TRUE), TRUE,
                                 trail.stage)
      IN [logged EXCEPT !.position = None]
    ELSE upd

BT_manage_position(self0, i, bar) ==
  LET self == Called(self0, "_manage_position")
      pos == Get(self.position)
  IN
  IF ~pos.tp1_hit THEN
    IF FLe(bar.Low, pos.stop_loss) THEN
      LET exit_price == pos.stop_loss
          pnl == Pnl(exit_price - pos.entry_price, NUM_CONTRACTS)
          logged == BT_log_trade(self, exit_price, bar.ts, "FULL_STOP", 0, pnl,
                                 calc_costs(FALSE), FALSE, 0)
      IN [logged EXCEPT !.position = None]
    ELSE IF FGe(bar.High, pos.tp1_price) THEN
      [self EXCEPT !.position = Some([pos EXCEPT
          !.tp1_hit = TRUE, !.contracts = 1,
          !.trailing = Some(TrailingStop(pos.entry_price, pos.sl_distance))])]
    ELSE self
  ELSE
    LET trail == TrailingStop_update(Get(pos.trailing), bar.Close, bar.atr,
                                     bar.st_line, bar.st_bullish)
        upd == [self EXCEPT !.position = Some([pos EXCEPT !.trailing = Some(trail)])]
    IN
    IF TrailingStop_is_stopped(trail, bar.Low) THEN
      LET exit_price == trail.trail_stop
          pnl_tp1 == Pnl(pos.tp1_price - pos.entry_price, 1)
          pnl_runner == Pnl(exit_price - pos.entry_price, 1)
          logged == BT_log_trade(upd, exit_price, bar.ts, TrailName(trail.stage),
                                 pnl_tp1, pnl_runner, calc_costs(TRUE), TRUE,
                                 trail.stage)
      IN [logged EXCEPT !.position = None]
    ELSE upd

BT_close_position(self0, i, price, reason, time) ==
  LET self == Called(self0, "_close_position")
      pos == Get(self.position)
      pnl_tp1 == IF pos.tp1_hit THEN Pnl(pos.tp1_price - pos.entry_price, 1) ELSE 0
      pnl_runner == IF pos.tp1_hit THEN Pnl(price - pos.entry_price, 1)
                    ELSE Pnl(price - pos.entry_price, NUM_CONTRACTS)
      costs == calc_costs(pos.tp1_hit)
      trail_stage == IF pos.tp1_hit /\ ~IsNone(pos.trailing)
                     THEN Get(pos.trailing).stage ELSE 0
      logged == BT_log_trade(self, price, time, reason, pnl_tp1, pnl_runner,
                             costs, pos.tp1_hit, trail_stage)
  IN [logged EXCEPT !.position = None]

\* The loop without the append of its skipping branches.
EquityAppended_skipped(self) == [self EXCEPT !.i = @ + 1]

EquityAppended(self) ==
  [self EXCEPT !.equity_curve = Append(@, self.capital), !.i = @ + 1]

\* One iteration of the loop of BacktestEngine.run, on row i = self.i of the
\* data frame; use_eod_close is the configuration flag USE_EOD_CLOSE.
BT_run_iter(self0, bar, use_eod_close) ==
  LET self == [self0 EXCEPT !.calls = <<>>]
      i == self.i
      et == get_et_time(bar.ts)
  IN
  IF IsNaN(bar.Close) \/ IsNaN(bar.long_score) THEN EquityAppended(self)
  ELSE IF use_eod_close /\ is_eod(et.hour, et.minute) /\ ~IsNone(self.position)
    THEN EquityAppended(BT_close_position(self, i, bar.Close, "EOD_CLOSE", bar.ts))
  ELSE IF is_maintenance(et.hour) \/ et.dow = 5 THEN EquityAppended(self)
  ELSE IF ~IsNone(self.position) THEN EquityAppended(BT_manage_position(self, i, bar))
  ELSE
    LET can_trade == bar.session \notin {"Maintenance", "Closed"}
        shift_override == bar.is_bullish_shift_candle \/ bar.st_buy_signal
        signal == can_trade /\
                  check_long_signal(i, bar.long_score, bar.effective_thresh,
                                    bar.longs_blocked, bar.ema_slope_bull,
                                    et.dow, self.cooldown, bar.Close,
                                    shift_override, bar.session)
        entry == IF signal THEN calc_entry(bar.Close, bar.tech_sl_long) ELSE None
    IN IF ~IsNone(entry)
       THEN EquityAppended(BT_enter_long(self, i, Get(entry), bar.long_score,
                                         bar.ts, bar.session))
       ELSE EquityAppended(self)

(***************************************************************************)
(* indicator_engine.py: IndicatorEngine._extract_signal_data               *)
(***************************************************************************)
safe_float(val) == IF IsNaN(val) THEN 0 ELSE val

extract_signal_data(bar) ==
  LET long_score == safe_float(bar.long_score)
      effective_thresh == safe_float(bar.effective_thresh)
  IN [timestamp |-> bar.ts,
      close |-> safe_float(bar.Close),
      high |-> safe_float(bar.High),
      low |-> safe_float(bar.Low),
      long_score |-> long_score,
      long_threshold |-> effective_thresh,
      signal |-> long_score >= effective_thresh,
      atr |-> safe_float(bar.atr),
      supertrend |-> safe_float(bar.st_line),
      st_bullish |-> bar.st_bullish,
      ema_slope_bull |-> bar.ema_slope_bull,
      longs_blocked |-> bar.longs_blocked,
      session |-> bar.session,
      tech_sl |-> safe_float(bar.tech_sl_long)]

(***************************************************************************)
(* paper_trader.py                                                         *)
(***************************************************************************)
PT_TrailingStop(entry_price, sl_distance) ==
  [entry_price |-> entry_price, sl_distance |-> sl_distance,
   trail_stop |-> entry_price, stage |-> 1]

PT_TrailingStop_update(self, bar_close, atr, st_line, st_bullish) ==
  LET current_profit == FSub(bar_close, self.entry_price)
      s1 == IF self.stage = 1 /\ FGe(current_profit, Mul15(self.sl_distance))
            THEN [self EXCEPT !.stage = 2,
                    !.trail_stop = PyMax(self.trail_stop,
                        FAdd(self.entry_price, Mul05(self.sl_distance)))]
            ELSE self
      s2 == IF s1.stage = 2 /\ FGe(current_profit, Mul20(self.sl_distance))
            THEN [s1 EXCEPT !.stage = 3]
            ELSE s1
  IN IF s2.stage = 3 /\ ~IsNaN(atr)
     THEN LET atr_trail == FSub(bar_close, MulTenths(atr, TRAILING_ATR_MULT))
              st_trail == IF USE_SUPERTREND_TRAILING /\ st_bullish /\ ~IsNaN(st_line)
                          THEN st_line ELSE atr_trail
              new_trail == PyMax(PyMax(atr_trail, st_trail), self.entry_price)
          IN [s2 EXCEPT !.trail_stop = PyMax(s2.trail_stop, new_trail)]
     ELSE s2

PT_TrailingStop_is_stopped(self, bar_low) == FLe(bar_low, self.trail_stop)

\* PaperTrader.__init__; calls as in BacktestEngine.
PaperTrader ==
  [capital |-> INITIAL_CAPITAL, position |-> None, trade_history |-> <<>>,
   trade_count |-> 0, cooldown_bar |-> -999, cooldown_price |-> 0,
   bar_counter |-> 0, calls |-> <<>>]

\* check_entry: the answer, and the trader (the cooldown check counts a bar).
PT_check_entry(self, signal_data) ==
  LET no == [ok |-> FALSE, pt |-> self]
      score == signal_data.long_score
      session == signal_data.session
      dow == signal_data.timestamp.weekday
  IN
  IF ~IsNone(self.position) THEN no
  ELSE IF ~signal_data.signal THEN no
  ELSE IF signal_data.longs_blocked THEN no
  ELSE IF ~signal_data.ema_slope_bull THEN no
  ELSE IF session \in {"Maintenance", "Closed"} THEN no
  ELSE IF session = "Europe" /\ score < EUROPE_MIN_SCORE THEN no
  ELSE IF dow = 2 /\ score < WEDNESDAY_LONG_MIN_SCORE THEN no
  ELSE IF dow = 3 /\ score < THURSDAY_MIN_SCORE THEN no
  ELSE
    LET counted == [self EXCEPT !.bar_counter = @ + 1]
        bars_elapsed == counted.bar_counter - counted.cooldown_bar
    IN IF bars_elapsed < COOLDOWN_BARS /\ counted.cooldown_price > 0 /\
          ~PctMoveReached(signal_data.close, counted.cooldown_price)
       THEN [ok |-> FALSE, pt |-> counted]
       ELSE [ok |-> TRUE, pt |-> counted]

PT_enter_position(self0, signal_data) ==
  LET self == Called(self0, "enter_position")
      entry_price == signal_data.close
      d0 == entry_price - signal_data.tech_sl
      d1 == IF d0 <= 0 THEN 30 * Pt ELSE d0
      sl_distance == IF d1 > MAX_SL_POINTS THEN MAX_SL_POINTS ELSE d1
      tech_sl == IF d0 <= 0 \/ d1 > MAX_SL_POINTS THEN entry_price - sl_distance
                 ELSE signal_data.tech_sl
      tp1_price == entry_price + MulTenths(sl_distance, RR_RATIO_TP1)
  IN [self EXCEPT
        !.position = Some([entry_time |-> signal_data.timestamp,
                           entry_price |-> entry_price,
                           entry_score |-> signal_data.long_score,
                           entry_session |-> signal_data.session,
                           contracts |-> NUM_CONTRACTS,
                           sl_price |-> tech_sl,
                           sl_distance |-> sl_distance,
                           tp1_price |-> tp1_price,
                           tp1_hit |-> FALSE,
                           trailing |-> None,
                           trail_stage |-> 0,
                           trail_stop |-> tech_sl,
                           highest_since_entry |-> entry_price,
                           pnl_tp1 |-> 0]),
        !.cooldown_bar = self.bar_counter,
        !.cooldown_price = entry_price,
        !.trade_count = @ + 1]

\* _exit: the trader after the close; the trade is the last of trade_history.
PT_exit(self, exit_price, exit_reason, timestamp) ==
  LET pos == Get(self.position)
      half_comm == COMMISSION_PER_CONTRACT \div 2
      pnl_tp1 == IF pos.tp1_hit THEN pos.pnl_tp1 ELSE 0
      pnl_runner == IF pos.tp1_hit THEN Pnl(exit_price - pos.entry_price, 1)
                    ELSE Pnl(exit_price - pos.entry_price, NUM_CONTRACTS)
      costs == IF pos.tp1_hit THEN 6 * half_comm + 4 * SLIPPAGE_COST
               ELSE 4 * half_comm + 2 * SLIPPAGE_COST
      total_pnl == pnl_tp1 + pnl_runner - costs
      capital == self.capital + total_pnl
      trade == [trade_num |-> self.trade_count,
                entry_time |-> pos.entry_time,
                exit_time |-> timestamp,
                entry_price |-> Round2(pos.entry_price),
                exit_price |-> Round2(exit_price),
                entry_score |-> pos.entry_score,
                entry_session |-> pos.entry_session,
                sl_price |-> Round2(pos.sl_price),
                sl_distance |-> Round2(pos.sl_distance),
                tp1_price |-> Round2(pos.tp1_price),
                tp1_hit |-> pos.tp1_hit,
                trail_stage |-> pos.trail_stage,
                exit_reason |-> exit_reason,
                pnl_tp1 |-> pnl_tp1,
                pnl_runner |-> pnl_runner,
                costs |-> costs,
                total_pnl |-> total_pnl,
                capital_after |-> capital]
  IN [self EXCEPT !.capital = capital, !.trade_history = Append(@, trade),
                  !.position = None]

\* update_position: the trader after the bar (an exit event was returned
\* exactly when the position went from open to None).
PT_update_position(self0, signal_data) ==
  IF IsNone(self0.position) THEN Called(self0, "update_position")
  ELSE
    LET self == [Called(self0, "update_position") EXCEPT !.bar_counter = @ + 1]
        high == signal_data.high
        low == signal_data.low
        close == signal_data.close
        p0 == Get(self.position)
        pos == IF high > p0.highest_since_entry
               THEN [p0 EXCEPT !.highest_since_entry = high] ELSE p0
        tracked == [self EXCEPT !.position = Some(pos)]
    IN
    IF ~pos.tp1_hit THEN
      IF low <= pos.sl_price THEN
        PT_exit(tracked, pos.sl_price, "FULL_STOP", signal_data.timestamp)
      ELSE IF high >= pos.tp1_price THEN
        [tracked EXCEPT !.position = Some([pos EXCEPT
            !.tp1_hit = TRUE, !.contracts = 1,
            !.pnl_tp1 = Pnl(pos.tp1_price - pos.entry_price, 1),
            !.trailing = Some(PT_TrailingStop(pos.entry_price, pos.sl_distance)),
            !.trail_stage = 1,
            !.trail_stop = pos.entry_price])]
      ELSE tracked
    ELSE
      LET trail == PT_TrailingStop_update(Get(pos.trailing), close,
                                          signal_data.atr, signal_data.supertrend,
                                          signal_data.st_bullish)
          upd == [tracked EXCEPT !.position = Some([pos EXCEPT
                     !.trailing = Some(trail), !.trail_stage = trail.stage,
                     !.trail_stop = trail.trail_stop])]
      IN IF PT_TrailingStop_is_stopped(trail, low)
         THEN PT_exit(upd, trail.trail_stop, TrailName(trail.stage),
                      signal_data.timestamp)
         ELSE upd

(***************************************************************************)
(* scheduler.py: TradingScheduler.tick                                     *)
(***************************************************************************)
\* tick without the "position is not None" test before update_position.
Scheduler_tick_unguarded(paper_trader0, signal_data) ==
  LET paper_trader == [paper_trader0 EXCEPT !.calls = <<>>]
      updated == PT_update_position(paper_trader, signal_data)
      checked == PT_check_entry(updated, signal_data)
  IN IF checked.ok THEN PT_enter_position(checked.pt, signal_data)
     ELSE checked.pt

\* Steps 4 and 5 of tick on the signal data of the latest bar.
Scheduler_tick(paper_trader0, signal_data) ==
  LET paper_trader == [paper_trader0 EXCEPT !.calls = <<>>]
      updated == IF ~IsNone(paper_trader.position)
                 THEN PT_update_position(paper_trader, signal_data)
                 ELSE paper_trader
      checked == PT_check_entry(updated, signal_data)
  IN IF checked.ok THEN PT_enter_position(checked.pt, signal_data)
     ELSE checked.pt

\* tick from its indicator pass to its broadcast, with the step named raises
\* raising when it is reached ("none": nothing raises; "process": the
\* pipeline raises inside engine.process, which returns None).  open_trade_id
\* is whether _open_trade_id is set.  The result is the PaperTrader, the
\* _open_trade_id, whether an exception reached tick's except clause
\* (raised) or the pipeline failed (no_signal), and whether tick goes on to
\* broadcast.  No rollback exists: what a step has changed stays changed.
Scheduler_tick_steps(paper_trader0, open_trade_id, signal_data, raises) ==
  LET paper_trader == [paper_trader0 EXCEPT !.calls = <<>>]
      out(pt, id, r, ns) == [pt |-> pt, open_trade_id |-> id, raised |-> r, no_signal |-> ns, broadcast |-> ~r /\ ~ns]
  IN
  IF raises = "process" \/ IsNone(signal_data) THEN out(paper_trader0, open_trade_id, FALSE, TRUE)
  ELSE IF raises = "log_signal" THEN out(paper_trader0, open_trade_id, TRUE, FALSE)
  ELSE
    LET sd == Get(signal_data)
        open == ~IsNone(paper_trader.position)
        updated == IF open THEN PT_update_position(paper_trader, sd) ELSE paper_trader
        exit_event == open /\ Len(updated.trade_history) > Len(paper_trader.trade_history)
        id4 == IF exit_event THEN FALSE ELSE open_trade_id
    IN
    IF exit_event /\ open_trade_id /\ raises = "close_trade" THEN out(updated, open_trade_id, TRUE, FALSE)
    ELSE IF exit_event /\ raises \in {"send_exit", "set_state"} THEN out(updated, id4, TRUE, FALSE)
    ELSE
      LET checked == PT_check_entry(updated, sd)
      IN IF checked.ok
         THEN LET entered == PT_enter_position(checked.pt, sd)
              IN IF raises = "insert_trade" THEN out(entered, id4, TRUE, FALSE)
                 ELSE IF raises = "send_signal" THEN out(entered, TRUE, TRUE, FALSE)
                 ELSE out(entered, TRUE, FALSE, FALSE)
         ELSE out(checked.pt, id4, FALSE, FALSE)

(***************************************************************************)
(* The bars                                                                *)
(***************************************************************************)
MaxLifeBars == 5
MaxGateBars == 4
MaxEquityBars == 4
MaxCoolBars == 9
MaxBlockBars == 6
MaxStopBars == 4

P0 == 20000 * Pt

MonUS == [weekday |-> 0, et_hour |-> 10, et_minute |-> 0, et_dow |-> 0]
MonEurope == [weekday |-> 0, et_hour |-> 3, et_minute |-> 0, et_dow |-> 0]
MonEod == [weekday |-> 0, et_hour |-> 16, et_minute |-> 45, et_dow |-> 0]
MonMaint == [weekday |-> 0, et_hour |-> 17, et_minute |-> 0, et_dow |-> 0]
TueAsia == [weekday |-> 2, et_hour |-> 20, et_minute |-> 0, et_dow |-> 1]
WedUS == [weekday |-> 2, et_hour |-> 10, et_minute |-> 0, et_dow |-> 2]
ThuUS == [weekday |-> 3, et_hour |-> 10, et_minute |-> 0, et_dow |-> 3]
SatUS == [weekday |-> 5, et_hour |-> 10, et_minute |-> 0, et_dow |-> 5]

\* A quiet bar at P0: score below threshold, Supertrend bearish above price.
Quiet ==
  [Close |-> P0, High |-> P0 + Pt, Low |-> P0 - Pt,
   long_score |-> 700, effective_thresh |-> 800,
   is_bearish_shift_candle |-> FALSE, is_bullish_shift_candle |-> FALSE,
   st_buy_signal |-> FALSE, ema_slope_bull |-> TRUE,
   atr |-> 10 * Pt, st_line |-> P0 + 60 * Pt, st_bullish |-> FALSE,
   tech_sl_long |-> P0 - 20 * Pt, time |-> MonUS]

\* Close, high and low at c, h and l points from P0.
Shape(c, h, l) ==
  [Quiet EXCEPT !.Close = P0 + c * Pt, !.High = P0 + h * Pt, !.Low = P0 + l * Pt,
                !.tech_sl_long = P0 + c * Pt - 20 * Pt]

\* The bar b scoring 9.5 with its technical stop d points below its close.
Signal(b, d) == [b EXCEPT !.long_score = 950, !.tech_sl_long = b.Close - d * Pt]

LifeBars ==
  { Quiet, Signal(Quiet, 20), Signal(Quiet, 50), Signal(Quiet, 0),
    Signal(Quiet, -5),
    Shape(30, 30, 0), Shape(40, 45, 30), Shape(60, 60, 40),
    Shape(-20, 0, -20), Shape(-40, 0, -40), Shape(0, 30, -20),
    [Shape(40, 45, 30) EXCEPT !.st_bullish = TRUE, !.st_line = P0 + 35 * Pt],
    Signal(Shape(-60, -40, -60), 20),
    [Quiet EXCEPT !.time = MonEod] }

\* The bar b with its prices moved by d units.
Moved(b, d) ==
  [b EXCEPT !.Close = @ + d, !.High = @ + d, !.Low = @ + d, !.tech_sl_long = @ + d]

Sig == Signal(Quiet, 20)

\* Bars that pass or fail one condition of the signal gate each.
GateBars ==
  { Quiet, Sig, Shape(-20, 0, -20),
    [Sig EXCEPT !.ema_slope_bull = FALSE],
    [Sig EXCEPT !.long_score = 800, !.effective_thresh = 775],
    [Sig EXCEPT !.long_score = 800, !.effective_thresh = 775, !.time = MonEurope],
    [Sig EXCEPT !.long_score = 850, !.effective_thresh = 775, !.time = MonEurope],
    [Sig EXCEPT !.long_score = 875, !.time = WedUS],
    [Sig EXCEPT !.long_score = 900, !.time = WedUS],
    [Sig EXCEPT !.long_score = 875, !.time = ThuUS],
    [Sig EXCEPT !.long_score = 875, !.time = TueAsia],
    [Sig EXCEPT !.time = MonMaint],
    [Sig EXCEPT !.time = SatUS],
    [Sig EXCEPT !.long_score = NaN],
    [Sig EXCEPT !.effective_thresh = NaN],
    [Sig EXCEPT !.is_bullish_shift_candle = TRUE],
    [Quiet EXCEPT !.is_bearish_shift_candle = TRUE] }

\* The bar b with a low that stops out any position opened by these bars.
Deep(b) == [b EXCEPT !.Low = P0 - 45 * Pt]

\* Bars around the cooldown: a price move of exactly MIN_PRICE_CHANGE percent
\* of P0 (50 points), one tick less, and the two overrides.  Every bar stops
\* out the position opened before it, so that the next bars find none open.
CoolBars ==
  { Deep(Quiet), Deep(Sig),
    Deep(Moved(Sig, 50 * Pt)), Deep(Moved(Sig, 50 * Pt - TICK_SIZE)),
    Deep([Sig EXCEPT !.is_bullish_shift_candle = TRUE]),
    Deep([Sig EXCEPT !.st_buy_signal = TRUE, !.st_bullish = TRUE,
                     !.st_line = P0 - 30 * Pt]) }

\* Bars around the blocking window of a bearish shift candle.
BlockBars ==
  { Quiet, Sig, Shape(-20, 0, -20),
    [Quiet EXCEPT !.is_bearish_shift_candle = TRUE],
    [Sig EXCEPT !.is_bearish_shift_candle = TRUE],
    Moved(Sig, 50 * Pt) }

\* Signal bars over the technical stop levels: inside the cap, beyond it, at
\* the close, above the close, and not available.
StopBars ==
  { Quiet, Shape(-20, 0, -20), Shape(30, 30, 0),
    Signal(Quiet, 20), Signal(Quiet, 40), Signal(Quiet, 50),
    Signal(Quiet, 0), Signal(Quiet, -5),
    [Sig EXCEPT !.tech_sl_long = NaN] }

\* Inputs of TrailingStop.update, for a stop entered at P0.
TrailCloses ==
  { P0 + d : d \in { -10 * Pt, 0, 30 * Pt - TICK_SIZE, 30 * Pt, 40 * Pt - TICK_SIZE,
                     40 * Pt, 60 * Pt } } \cup { NaN }
TrailAtrs == { NaN, 5 * Pt, 30 * Pt }
TrailStLines == { NaN, P0 + 25 * Pt, P0 + 70 * Pt }
TrailSlDistances == { 20 * Pt, 40 * Pt, NaN }

(***************************************************************************)
(* The state machine                                                       *)
(***************************************************************************)
VARIABLES
  latest,         \* the latest row of the data frame (None before the first)
  shifts,         \* is_bearish_shift_candle of the rows before it (the tail)
  prev_bear,      \* index of the latest bearish shift candle before it, or -1
  use_eod_close,  \* config.USE_EOD_CLOSE
  bt,             \* the BacktestEngine
  live,           \* the PaperTrader driven by TradingScheduler.tick
  turn,           \* "bt": run takes the next row; "live": tick takes it
  trail,          \* a free-standing TrailingStop of each implementation
  frame,          \* a free-standing data frame in the precompute pipeline
  sched           \* the TradingScheduler: its tick coroutines (None: unused)

vars == <<latest, shifts, prev_bear, use_eod_close, bt, live, turn, trail, frame, sched>>

bar == Get(latest)

\* The row of the data frame for the raw bar b at index i.
FeatureBar(b, i, prev) ==
  [Close |-> b.Close, High |-> b.High, Low |-> b.Low,
   long_score |-> b.long_score, effective_thresh |-> b.effective_thresh,
   is_bearish_shift_candle |-> b.is_bearish_shift_candle,
   is_bullish_shift_candle |-> b.is_bullish_shift_candle,
   st_buy_signal |-> b.st_buy_signal, ema_slope_bull |-> b.ema_slope_bull,
   atr |-> b.atr, st_line |-> b.st_line, st_bullish |-> b.st_bullish,
   tech_sl_long |-> b.tech_sl_long,
   ts |-> [t |-> i, weekday |-> b.time.weekday, et_hour |-> b.time.et_hour,
           et_minute |-> b.time.et_minute, et_dow |-> b.time.et_dow],
   session |-> get_session_labels(b.time.et_hour, b.time.et_minute),
   longs_blocked |-> longs_blocked_at(prev)]

InitWith(eod) ==
  /\ latest = None
  /\ shifts = <<>>
  /\ prev_bear = -1
  /\ use_eod_close \in eod
  /\ bt = BacktestEngine
  /\ live = PaperTrader
  /\ turn = "bt"

\* The shipped configuration has USE_EOD_CLOSE = False; the forced close of
\* run is reachable only with the flag set.
Init == InitWith(BOOLEAN) /\ trail = None /\ frame = None /\ sched = None

InitShipped == InitWith({FALSE}) /\ trail = None /\ frame = None /\ sched = None

\* The pipeline delivers the next row and BacktestEngine.run processes it.
RunIter(b, max_bars) ==
  /\ turn = "bt"
  /\ bt.i < max_bars
  /\ LET col == IF IsNone(latest) THEN shifts
                ELSE ShiftTail(Append(shifts, bar.is_bearish_shift_candle))
         row == FeatureBar(b, bt.i, col)
     IN /\ latest' = Some(row)
        /\ shifts' = col
        /\ prev_bear' = IF ~IsNone(latest) /\ bar.is_bearish_shift_candle
                        THEN bar.ts.t ELSE prev_bear
        /\ bt' = BT_run_iter(bt, row, use_eod_close)
  /\ turn' = "live"
  /\ UNCHANGED <<use_eod_close, live, trail, frame, sched>>

\* TradingScheduler.tick on the same row, the latest of the live data frame.
Tick ==
  /\ turn = "live"
  /\ live' = Scheduler_tick(live, extract_signal_data(bar))
  /\ turn' = "bt"
  /\ UNCHANGED <<latest, shifts, prev_bear, use_eod_close, bt, trail, frame, sched>>

Next == (\E b \in LifeBars : RunIter(b, MaxLifeBars)) \/ Tick

Spec == Init /\ [][Next]_vars

NextGate == (\E b \in GateBars : RunIter(b, MaxGateBars)) \/ Tick

SpecGate == InitShipped /\ [][NextGate]_vars

NextCool == (\E b \in CoolBars : RunIter(b, MaxCoolBars)) \/ Tick

SpecCool == InitShipped /\ [][NextCool]_vars

NextBlock == (\E b \in BlockBars : RunIter(b, MaxBlockBars)) \/ Tick

SpecBlock == InitShipped /\ [][NextBlock]_vars

NextStop == (\E b \in StopBars : RunIter(b, MaxStopBars)) \/ Tick

SpecStop == InitShipped /\ [][NextStop]_vars

\* Bars for every branch of the loop of run: rows without data, the forced
\* close, the maintenance hour, Saturday, an entry, a partial exit, a stop.
\* The maintenance and Saturday bars carry a signal and a low below every
\* stop; the last one is a Saturday bar at the time of the forced close.
EquityBars ==
  { Quiet, Sig, Deep(Quiet), Shape(30, 30, 0),
    [Quiet EXCEPT !.Close = NaN],
    [Sig EXCEPT !.long_score = NaN],
    [Quiet EXCEPT !.time = MonEod],
    Deep([Sig EXCEPT !.time = MonMaint]),
    Deep([Sig EXCEPT !.time = SatUS]),
    Deep([Sig EXCEPT !.time = [weekday |-> 5, et_hour |-> 16, et_minute |-> 45,
                               et_dow |-> 5]]) }

NextEquity == (\E b \in EquityBars : RunIter(b, MaxEquityBars)) \/ Tick

SpecEquity == Init /\ [][NextEquity]_vars

\* A TrailingStop of trailing.py (ts) and one of paper_trader.py (pt), created
\* for the same runner; upd is the latest update's arguments.
InitTrail ==
  /\ InitWith({FALSE})
  /\ frame = None
  /\ sched = None
  /\ \E d \in TrailSlDistances :
       trail = Some([ts |-> TrailingStop(P0, d), pt |-> PT_TrailingStop(P0, d),
                     upd |-> None])

\* One call of update on each, with the same arguments.
TrailUpdate(bar_close, atr, st_line, st_bullish) ==
  /\ ~IsNone(trail)
  /\ trail' = Some([ts |-> TrailingStop_update(Get(trail).ts, bar_close, atr,
                                               st_line, st_bullish),
                    pt |-> PT_TrailingStop_update(Get(trail).pt, bar_close, atr,
                                                  st_line, st_bullish),
                    upd |-> Some([bar_close |-> bar_close, atr |-> atr,
                                  st_line |-> st_line, st_bullish |-> st_bullish])])
  /\ UNCHANGED <<latest, shifts, prev_bear, use_eod_close, bt, live, turn, frame, sched>>

NextTrail ==
  \E c \in TrailCloses, a \in TrailAtrs, l \in TrailStLines, u \in BOOLEAN :
    TrailUpdate(c, a, l, u)

SpecTrail == InitTrail /\ [][NextTrail]_vars

\* The inputs of the threshold columns: one row of the enriched frame.
ThreshRows ==
  LET Times == {<<17, 0>>, <<16, 30>>, <<10, 0>>, <<9, 30>>, <<9, 15>>, <<3, 0>>, <<20, 0>>}
      Adx == {NaN, 3000, 3001}
      Di == {2000, 2500}
      Pctiles == {NaN, 1000, 1999, 2000, 6500, 6501, 8000, 8001}
  IN { [st_bullish |-> s, adx |-> a, di_plus |-> dp, di_minus |-> dm,
        vol_above |-> v, mtf_bullish |-> m1, mtf4h_bullish |-> m4,
        session |-> get_session_labels(t[1], t[2]), atr_pctile |-> p] :
       s \in BOOLEAN, a \in Adx, dp \in Di, dm \in Di,
       v \in BOOLEAN, m1 \in BOOLEAN, m4 \in BOOLEAN, t \in Times,
       p \in Pctiles }

\* An enriched row before precompute_all_scores.
InitThresh ==
  /\ InitWith({FALSE})
  /\ trail = None
  /\ sched = None
  /\ \E r \in ThreshRows : frame = Some([row |-> r, scores |-> None])

\* precompute_all_scores adds the threshold columns.
PrecomputeAllScores ==
  /\ ~IsNone(frame)
  /\ IsNone(Get(frame).scores)
  /\ frame' = Some([Get(frame) EXCEPT !.scores = Some(precompute_all_scores(Get(frame).row))])
  /\ UNCHANGED <<latest, shifts, prev_bear, use_eod_close, bt, live, turn, trail, sched>>

NextThresh == PrecomputeAllScores

SpecThresh == InitThresh /\ [][NextThresh]_vars

\* The raw bars of the frame specification.  The columns of ind are those of
\* a quiet bar and of a bar with every bullish condition met.
FrameBars ==
  LET IndQuiet ==
        [primary_bull |-> FALSE, mtf_bullish |-> FALSE, mtf4h_bullish |-> FALSE,
         daily_bullish |-> FALSE, vol_spike |-> FALSE, vol_above |-> FALSE, vol_weak |-> TRUE,
         bull_breakout |-> FALSE, near_support |-> FALSE, bull_cons_breakout |-> FALSE,
         near_daily_level |-> FALSE, rsi |-> 5000, macd_line |-> -10, macd_signal |-> 0,
         adx |-> 1500, di_plus |-> 2000, di_minus |-> 2500, hammer_confirm |-> FALSE,
         morning_star |-> FALSE, bull_engulf |-> FALSE, bull_shift |-> FALSE,
         bull_sess_break |-> FALSE, near_resist |-> TRUE, vol_declining |-> TRUE,
         atr_pctile |-> NaN, atr |-> 3 * Pt]
      IndStrong ==
        [primary_bull |-> TRUE, mtf_bullish |-> TRUE, mtf4h_bullish |-> TRUE,
         daily_bullish |-> TRUE, vol_spike |-> TRUE, vol_above |-> TRUE, vol_weak |-> FALSE,
         bull_breakout |-> TRUE, near_support |-> TRUE, bull_cons_breakout |-> FALSE,
         near_daily_level |-> TRUE, rsi |-> 6000, macd_line |-> 10, macd_signal |-> 0,
         adx |-> 3500, di_plus |-> 2500, di_minus |-> 2000, hammer_confirm |-> FALSE,
         morning_star |-> FALSE, bull_engulf |-> TRUE, bull_shift |-> TRUE,
         bull_sess_break |-> TRUE, near_resist |-> FALSE, vol_declining |-> FALSE,
         atr_pctile |-> 8500, atr |-> 5 * Pt]
  IN
  { [High |-> P0 + Pt, Low |-> P0 - Pt, Close |-> P0,
     is_bearish_shift_candle |-> FALSE, ind |-> IndQuiet],
    [High |-> P0 + 11 * Pt, Low |-> P0 + 9 * Pt, Close |-> P0 + 10 * Pt,
     is_bearish_shift_candle |-> FALSE, ind |-> IndStrong],
    [High |-> P0 - 9 * Pt, Low |-> P0 - 21 * Pt, Close |-> P0 - 20 * Pt,
     is_bearish_shift_candle |-> TRUE, ind |-> IndQuiet] }

\* The distance of a bar from the one before it, in slots: the next bar, or
\* a week later.  The first bar opens on Monday 01:30 or on Sunday 01:15, so
\* that the bars that follow cross an hour and a session boundary.
FrameGaps == {1, 672}

MaxFrameBars == 4

\* No bar has been loaded.
InitFrame ==
  /\ InitWith({FALSE})
  /\ trail = None
  /\ sched = None
  /\ frame = Some([df_15m |-> <<>>, df |-> <<>>])

\* One more bar arrives and prepare_data runs on the whole series.
PrepareData(b, gap) ==
  /\ ~IsNone(frame)
  /\ Len(Get(frame).df_15m) < MaxFrameBars
  /\ LET old == Get(frame).df_15m
         t == (IF old = <<>> THEN IF gap = 1 THEN 5 ELSE -91 ELSE old[Len(old)].t) + gap
         df_15m == Append(old, b @@ [t |-> t])
     IN frame' = Some([df_15m |-> df_15m, df |-> prepare_data(df_15m)])
  /\ UNCHANGED <<latest, shifts, prev_bear, use_eod_close, bt, live, turn, trail, sched>>

NextFrame == \E b \in FrameBars, gap \in FrameGaps : PrepareData(b, gap)

SpecFrame == InitFrame /\ [][NextFrame]_vars

\* Raw bars for calc_supertrend alone: bars without a range (high = low =
\* close) at three prices, and bars with a range of two points.
SupertrendBars ==
  { [High |-> P0 + c * Pt + r * Pt, Low |-> P0 + c * Pt - r * Pt, Close |-> P0 + c * Pt] :
      c \in {-1, 0, 1}, r \in {0, 1} }

MaxSupertrendBars == 4

\* One more bar arrives and calc_supertrend runs on the whole series; df
\* holds the final bands, the line and the direction of every bar.
CalcSupertrend(b) ==
  /\ ~IsNone(frame)
  /\ Len(Get(frame).df_15m) < MaxSupertrendBars
  /\ LET df_15m == Append(Get(frame).df_15m, b)
     IN frame' = Some([df_15m |-> df_15m,
                       df |-> calc_supertrend_loop(df_15m, ST_PERIOD, ST_MULTIPLIER)])
  /\ UNCHANGED <<latest, shifts, prev_bear, use_eod_close, bt, live, turn, trail, sched>>

NextSupertrend == \E b \in SupertrendBars : CalcSupertrend(b)

SpecSupertrend == InitFrame /\ [][NextSupertrend]_vars

\* The callers of tick: the "main_tick" job of AsyncIOScheduler and
\* run_initial_tick.
TickCallers == {"job", "initial"}

\* The bars the feed delivers to the scheduler specifications.
TickBars == { Quiet, Sig, Deep(Quiet), Shape(30, 30, 0) }

MaxTicks == 3

\* The scheduler after construction: no tick has been called.  A tick is
\* "idle" before it is called and after it has returned; pre is the
\* PaperTrader at its call, failed whether a step of it raised.
InitSchedWith(callers) ==
  /\ InitWith({FALSE})
  /\ trail = None
  /\ frame = None
  /\ sched = Some([open_trade_id |-> FALSE, started |-> 0, callers |-> callers,
                   ticks |-> [k \in TickCallers |->
                               [pc |-> "idle", pre |-> PaperTrader, failed |-> FALSE]]])

\* tick is called and runs to its first suspension, the await of
\* data_feed.update().  The job is added with the scheduler's default of one
\* running instance: a trigger that fires while the job's coroutine has not
\* returned does not start another.  run_initial_tick awaits tick directly.
TickStart(k) ==
  /\ ~IsNone(sched)
  /\ k \in Get(sched).callers
  /\ Get(sched).started < MaxTicks
  /\ Get(sched).ticks[k].pc = "idle"
  /\ sched' = Some([Get(sched) EXCEPT !.started = @ + 1,
                                      !.ticks[k] = [pc |-> "update", pre |-> live, failed |-> FALSE]])
  /\ UNCHANGED <<latest, shifts, prev_bear, use_eod_close, bt, live, turn, trail, frame>>

\* data_feed.update() returns, with a new bar (fetched = <<b>>) or without
\* one (a failed fetch is caught inside update, which returns 0), and tick
\* runs on the latest bar of the feed up to its next suspension, the await
\* of broadcast(), or to its end.  The alert coroutines contain no await
\* that suspends, and the database calls are synchronous.
TickResume(k, fetched, raises) ==
  /\ ~IsNone(sched)
  /\ Get(sched).ticks[k].pc = "update"
  /\ LET col == IF IsNone(latest) THEN shifts
                ELSE ShiftTail(Append(shifts, bar.is_bearish_shift_candle))
         n == IF IsNone(latest) THEN 0 ELSE bar.ts.t + 1
     IN \E df \in { IF IsNone(fetched) THEN latest
                    ELSE Some(FeatureBar(Get(fetched), n, col)) } :
        \E signal_data \in { IF IsNone(df) THEN None
                             ELSE Some(extract_signal_data(Get(df))) } :
        \E r \in { Scheduler_tick_steps(live, Get(sched).open_trade_id,
                                        signal_data, raises) } :
          /\ latest' = df
          /\ shifts' = IF IsNone(fetched) THEN shifts ELSE col
          /\ prev_bear' = IF ~IsNone(fetched) /\ ~IsNone(latest) /\ bar.is_bearish_shift_candle
                          THEN bar.ts.t ELSE prev_bear
          /\ live' = r.pt
          /\ sched' = Some([Get(sched) EXCEPT
                              !.open_trade_id = r.open_trade_id,
                              !.ticks[k].pc = IF r.broadcast THEN "broadcast" ELSE "idle",
                              !.ticks[k].failed = r.raised \/ r.no_signal])
  /\ UNCHANGED <<use_eod_close, bt, turn, trail, frame>>

\* broadcast() returns or raises; tick ends either way.
TickEnd(k, raises) ==
  /\ ~IsNone(sched)
  /\ Get(sched).ticks[k].pc = "broadcast"
  /\ sched' = Some([Get(sched) EXCEPT !.ticks[k].pc = "idle", !.ticks[k].failed = raises])
  /\ UNCHANGED <<latest, shifts, prev_bear, use_eod_close, bt, live, turn, trail, frame>>

NextSched ==
  \E k \in TickCallers :
    \/ TickStart(k)
    \/ \E fetched \in {None} \cup { Some(b) : b \in TickBars }, raises \in {"none", "process", "log_signal", "close_trade", "send_exit", "set_state", "insert_trade", "send_signal"} :
         TickResume(k, fetched, raises)
    \/ \E raises \in BOOLEAN : TickEnd(k, raises)

\* The shipped wiring: only the job calls tick.
SpecJob == InitSchedWith({"job"}) /\ [][NextSched]_vars

\* The job and run_initial_tick.
SpecSched == InitSchedWith(TickCallers) /\ [][NextSched]_vars

(***************************************************************************)
(* Properties                                                              *)
(***************************************************************************)
IsOpen(self) == ~IsNone(self.position)

OpenCount(self) == IF IsOpen(self) THEN 1 ELSE 0

\* The calls of the latest iteration that went to one of the methods ops.
CallsOf(self, ops) == { k \in 1..Len(self.calls) : self.calls[k].op \in ops }

\* C1: after any sequence of bars at most one position exists.  In run,
\* _enter_long is reached only while self.position is None and
\* _manage_position and _close_position only while it is not None; tick
\* invokes enter_position only while PaperTrader.position is None and
\* update_position only while it is not None.  Every entry counted by
\* trade_count is either the one open position or a closed trade.
C1_AtMostOnePosition ==
  /\ \A k \in CallsOf(bt, {"_enter_long"}) : ~bt.calls[k].open
  /\ \A k \in CallsOf(bt, {"_manage_position", "_close_position"}) : bt.calls[k].open
  /\ \A k \in CallsOf(live, {"enter_position"}) : ~live.calls[k].open
  /\ \A k \in CallsOf(live, {"update_position"}) : live.calls[k].open
  /\ bt.trade_count = Len(bt.trades) + OpenCount(bt)
  /\ live.trade_count = Len(live.trade_history) + OpenCount(live)

\* Both drivers have closed a trade and opened the next one on the latest bar.
C1_Witness ==
  /\ turn = "bt"
  /\ Len(bt.trades) >= 1 /\ IsOpen(bt) /\ CallsOf(bt, {"_enter_long"}) # {}
  /\ Len(live.trade_history) >= 1 /\ IsOpen(live)
  /\ CallsOf(live, {"enter_position"}) # {}

\* The trade decisions of the backtest: per closed trade the entry bar, the
\* stop and take-profit prices, the exit bar, reason and price; and the entry
\* bar, stop and take-profit of the open position.
BtDecisions ==
  [closed |-> [k \in 1..Len(bt.trades) |->
                 LET t == bt.trades[k] IN
                 <<t.entry_time.t, t.stop_loss, t.tp1_price,
                   t.exit_time.t, t.exit_reason, t.exit_price>>],
   open |-> IF IsOpen(bt)
            THEN LET pos == Get(bt.position) IN
                 <<pos.entry_time.t, pos.stop_loss, pos.tp1_price>>
            ELSE <<>>]

\* The same of the live path.
LiveDecisions ==
  [closed |-> [k \in 1..Len(live.trade_history) |->
                 LET t == live.trade_history[k] IN
                 <<t.entry_time.t, t.sl_price, t.tp1_price,
                   t.exit_time.t, t.exit_reason, t.exit_price>>],
   open |-> IF IsOpen(live)
            THEN LET pos == Get(live.position) IN
                 <<pos.entry_time.t, pos.sl_price, pos.tp1_price>>
            ELSE <<>>]

\* C2: for every bar sequence, feeding the bars one per tick through
\* TradingScheduler.tick yields the same trade decisions as BacktestEngine.run
\* over the same bars: once both have processed a bar, the same entry bars,
\* stop and take-profit prices, exit bars, exit reasons and exit prices.
C2_SameDecisions == turn = "bt" => BtDecisions = LiveDecisions

\* The step is an iteration of run that opens a position.
BtEnters == bt'.trade_count = bt.trade_count + 1

\* C3: BacktestEngine opens a position on bar i only if, on bar i, no
\* position is open, long_score >= effective_thresh, longs_blocked is false,
\* ema_slope_bull is true, the session is neither Maintenance nor Closed,
\* long_score >= 8.5 when the session is Europe, long_score >= 9.0 when the
\* bar's US/Eastern weekday is Wednesday or Thursday, and
\* CooldownTracker.is_ready returns true.
C3_EntryOnlyThroughGate ==
  [][BtEnters =>
       LET row == Get(latest') IN
       /\ ~IsOpen(bt)
       /\ IsOpen(bt') /\ Get(bt'.position).entry_bar = row.ts.t
       /\ ~IsNaN(row.long_score) /\ ~IsNaN(row.effective_thresh)
       /\ row.long_score >= row.effective_thresh
       /\ ~row.longs_blocked
       /\ row.ema_slope_bull
       /\ row.session \notin {"Maintenance", "Closed"}
       /\ row.session = "Europe" => row.long_score >= 850
       /\ row.ts.et_dow \in {2, 3} => row.long_score >= 900
       /\ CooldownTracker_is_ready(bt.cooldown, row.ts.t, row.Close,
                                   row.is_bullish_shift_candle \/ row.st_buy_signal)
  ]_vars

\* A position opened on a Europe bar scoring exactly 8.5, on the bar after a
\* bar that kept the backtest flat.
C3_Witness ==
  /\ IsOpen(bt) /\ Get(bt.position).entry_session = "Europe"
  /\ Get(bt.position).entry_score = 850
  /\ Get(bt.position).entry_bar = bar.ts.t /\ bar.ts.t >= 1
  /\ bt.trade_count = 1

\* The row passes every entry condition other than the cooldown, and has a
\* technical stop below its close.
PassesOtherGates(row) ==
  /\ ~IsNaN(row.long_score) /\ ~IsNaN(row.effective_thresh)
  /\ row.long_score >= row.effective_thresh
  /\ ~row.longs_blocked /\ row.ema_slope_bull
  /\ row.session = "US" /\ row.ts.et_dow = 0 /\ row.ts.et_hour # 17
  /\ ~IsNaN(row.tech_sl_long) /\ row.tech_sl_long < row.Close

\* Bar i (the row) is inside the cooldown of the entry at bar b and price p:
\* i - b < 8 and |close_i - p| / p * 100 < 0.25, that is |close_i - p| * 400 < p.
InsideCooldown(row, b, p) ==
  /\ row.ts.t - b < 8
  /\ p > 0
  /\ Abs(row.Close - p) * 400 < p

\* C4: an entry at bar b and price p updates the cooldown state to (b, p) in
\* the same step.  After it no entry fires in the backtest at a later bar i
\* with i - b < COOLDOWN_BARS (8) and |close_i - p| / p * 100 <
\* MIN_PRICE_CHANGE (0.25) unless bar i carries an override (bullish shift
\* candle or Supertrend buy signal); when i - b >= 8, or the price move is
\* >= 0.25%, or the override is present, the cooldown does not block: a flat
\* backtest enters on a bar that passes the other conditions.
C4_Cooldown ==
  [][turn = "bt" =>
       LET row == Get(latest')
           b == bt.cooldown.last_trade_bar
           p == bt.cooldown.last_trade_price
           override == row.is_bullish_shift_candle \/ row.st_buy_signal
       IN
       /\ BtEnters =>
            bt'.cooldown = [last_trade_bar |-> row.ts.t, last_trade_price |-> row.Close]
       /\ ~BtEnters => bt'.cooldown = bt.cooldown
       /\ InsideCooldown(row, b, p) /\ ~override => ~BtEnters
       /\ (~InsideCooldown(row, b, p) \/ override) /\ ~IsOpen(bt) /\
          PassesOtherGates(row) => BtEnters
  ]_vars

\* The first entry after the entry at bar 0 and price P0 fires at bar 8, at
\* the same price and with no override.
C4_Witness ==
  /\ Len(bt.trades) = 1 /\ bt.trades[1].entry_time.t = 0
  /\ IsOpen(bt) /\ Get(bt.position).entry_bar = 8
  /\ Get(bt.position).entry_price = P0
  /\ bar.ts.t = 8 /\ ~bar.is_bullish_shift_candle /\ ~bar.st_buy_signal

\* The entry parameters satisfy the claim: 0 < sl_distance <= MAX_SL_POINTS
\* (40 points), stop = entry - sl_distance, tp1 = entry + sl_distance * 1.5.
EntryLevelsOk(entry_price, stop, sl_distance, tp1_price) ==
  /\ ~IsNaN(sl_distance) /\ ~IsNaN(stop) /\ ~IsNaN(tp1_price)
  /\ sl_distance > 0 /\ sl_distance <= 40 * Pt
  /\ stop = entry_price - sl_distance
  /\ 2 * (tp1_price - entry_price) = 3 * sl_distance

\* C5: for every position opened (by calc_entry in the backtest and by
\* PaperTrader.enter_position in the live path) the stop distance is > 0 and
\* <= MAX_SL_POINTS (40), stop_loss = entry_price - sl_distance and
\* tp1_price = entry_price + sl_distance * RR_RATIO_TP1 (1.5), whatever
\* technical stop level was supplied.
C5_EntryLevels ==
  /\ IsOpen(bt) =>
       LET pos == Get(bt.position) IN
       EntryLevelsOk(pos.entry_price, pos.stop_loss, pos.sl_distance, pos.tp1_price)
  /\ IsOpen(live) =>
       LET pos == Get(live.position) IN
       EntryLevelsOk(pos.entry_price, pos.sl_price, pos.sl_distance, pos.tp1_price)

\* C5 restricted to technical stop levels that are numbers: the backtest
\* position was opened on a bar whose tech_sl_long is available.
C5_EntryLevelsOfNumbers ==
  /\ IsOpen(bt) /\ CallsOf(bt, {"_enter_long"}) # {} /\ ~IsNaN(bar.tech_sl_long) =>
       LET pos == Get(bt.position) IN
       EntryLevelsOk(pos.entry_price, pos.stop_loss, pos.sl_distance, pos.tp1_price)
  /\ IsOpen(live) =>
       LET pos == Get(live.position) IN
       EntryLevelsOk(pos.entry_price, pos.sl_price, pos.sl_distance, pos.tp1_price)

\* The stage and the stop of the TrailingStop after are not below those before.
NotLowered(before, after) ==
  /\ after.stage >= before.stage
  /\ ~IsNaN(after.trail_stop)
  /\ after.trail_stop >= before.trail_stop

\* C6: across any sequence of TrailingStop.update calls on one TrailingStop
\* (any closes, ATR values and Supertrend values, including not-available
\* ones), stage never decreases and trail_stop never decreases; this for the
\* TrailingStop of trailing.py and for the one of paper_trader.py.
C6_TrailNeverLowered ==
  [][~IsNone(trail) /\ ~IsNone(trail') =>
       /\ NotLowered(Get(trail).ts, Get(trail').ts)
       /\ NotLowered(Get(trail).pt, Get(trail').pt)
  ]_vars

\* A stage-3 stop above the entry price has just been updated with a close
\* whose ATR trail lies below it, and with a not-available Supertrend line.
C6_Witness ==
  /\ ~IsNone(trail) /\ ~IsNone(Get(trail).upd)
  /\ LET ts == Get(trail).ts
         pt == Get(trail).pt
         upd == Get(Get(trail).upd)
     IN /\ ts.stage = 3 /\ pt.stage = 3
        /\ ts.trail_stop > ts.entry_price /\ pt.trail_stop = ts.trail_stop
        /\ ~IsNaN(upd.atr) /\ ~IsNaN(upd.bar_close)
        /\ upd.bar_close - 2 * upd.atr < ts.trail_stop
        /\ IsNaN(upd.st_line) /\ upd.st_bullish

ExitReasons == {"FULL_STOP", "TRAIL_S1", "TRAIL_S2", "TRAIL_S3", "EOD_CLOSE"}

TrailReasons == {"TRAIL_S1", "TRAIL_S2", "TRAIL_S3"}

\* The closed trades of both ledgers.
LedgerTrades ==
  { bt.trades[k] : k \in 1..Len(bt.trades) } \cup
  { live.trade_history[k] : k \in 1..Len(live.trade_history) }

C8_CostsByPartial ==
  \A t \in LedgerTrades :
    /\ t.costs = IF t.tp1_hit THEN 6 * 225 + 4 * 500 ELSE 4 * 225 + 2 * 500
    /\ t.total_pnl = t.pnl_tp1 + t.pnl_runner - t.costs

\* Both ledgers hold a trade closed after the partial exit by a trailing
\* stop; the backtest's closed on the latest bar.
C8_Witness ==
  /\ Len(bt.trades) >= 1 /\ Len(live.trade_history) >= 1
  /\ bt.trades[Len(bt.trades)].tp1_hit
  /\ bt.trades[Len(bt.trades)].exit_reason \in TrailReasons
  /\ bt.trades[Len(bt.trades)].exit_time.t = bar.ts.t
  /\ live.trade_history[Len(live.trade_history)].tp1_hit

\* The position after is the runner of the pre-partial position before:
\* still open, contracts = 1, tp1_hit, and a new TrailingStop at stage 1 whose
\* trail_stop is the entry price; its entry parameters are unchanged.
IsRunnerOf(before, after) ==
  /\ after.contracts = 1 /\ after.tp1_hit
  /\ ~IsNone(after.trailing)
  /\ Get(after.trailing).stage = 1
  /\ Get(after.trailing).trail_stop = before.entry_price
  /\ after.entry_price = before.entry_price
  /\ after.tp1_price = before.tp1_price
  /\ after.sl_distance = before.sl_distance

\* C9: when an open pre-partial position meets a bar with low > stop_loss and
\* high >= tp1_price, the position stays open with contracts = 1, tp1_hit =
\* true and a new TrailingStop at stage 1 whose trail_stop equals the entry
\* price; the partial-leg P&L recorded when the trade later closes is
\* (tp1_price - entry_price) * POINT_VALUE for one contract ($20 a point, 250
\* cents an eighth of a point).  In _manage_position and in update_position.
C9_PartialExit ==
  [][/\ (/\ turn = "bt" /\ CallsOf(bt', {"_manage_position"}) # {}
         /\ ~Get(bt.position).tp1_hit
         /\ Get(latest').Low > Get(bt.position).stop_loss
         /\ Get(latest').High >= Get(bt.position).tp1_price)
        => /\ IsOpen(bt') /\ IsRunnerOf(Get(bt.position), Get(bt'.position))
           /\ bt'.trades = bt.trades
     /\ (/\ turn = "live" /\ CallsOf(live', {"update_position"}) # {}
         /\ ~Get(live.position).tp1_hit
         /\ bar.Low > Get(live.position).sl_price
         /\ bar.High >= Get(live.position).tp1_price)
        => /\ IsOpen(live') /\ IsRunnerOf(Get(live.position), Get(live'.position))
           /\ Get(live'.position).trail_stop = Get(live.position).entry_price
           /\ live'.trade_history = live.trade_history
     /\ (/\ turn = "bt" /\ Len(bt'.trades) = Len(bt.trades) + 1
         /\ Get(bt.position).tp1_hit)
        => bt'.trades[Len(bt'.trades)].pnl_tp1 =
             (Get(bt.position).tp1_price - Get(bt.position).entry_price) * 250
     /\ (/\ turn = "live" /\ Len(live'.trade_history) = Len(live.trade_history) + 1
         /\ Get(live.position).tp1_hit)
        => live'.trade_history[Len(live'.trade_history)].pnl_tp1 =
             (Get(live.position).tp1_price - Get(live.position).entry_price) * 250
  ]_vars

\* Both ledgers hold the trade of a position that became a runner and later
\* closed, with a partial leg of 30 points ($600).
C9_Witness ==
  /\ Len(bt.trades) >= 1 /\ bt.trades[1].tp1_hit /\ bt.trades[1].pnl_tp1 = 60000
  /\ Len(live.trade_history) >= 1 /\ live.trade_history[1].tp1_hit
  /\ live.trade_history[1].pnl_tp1 = 60000

\* An entry fired on the latest bar, in the backtest or in the live path.
EntryOnLatestBar ==
  \/ IsOpen(bt) /\ Get(bt.position).entry_bar = bar.ts.t
  \/ IsOpen(live) /\ Get(live.position).entry_time.t = bar.ts.t

\* C10: longs_blocked is true on bar i exactly when a bearish shift candle
\* occurred on one of the bars i-1 .. i-SHIFT_BLOCK_BARS (4), that is when
\* the latest such candle before bar i is at most 4 bars back; hence after a
\* bearish shift candle on bar k no entry fires on bars k+1..k+4 whatever the
\* score, and that candle alone blocks neither bar k nor bar k+5.
C10_BlockedWindow ==
  ~IsNone(latest) =>
    /\ bar.longs_blocked <=> (prev_bear >= 0 /\ bar.ts.t - prev_bear <= 4)
    /\ (prev_bear >= 0 /\ bar.ts.t - prev_bear \in 1..4) => ~EntryOnLatestBar
    /\ (bar.is_bearish_shift_candle /\ (prev_bear < 0 \/ bar.ts.t - prev_bear >= 5))
         => ~bar.longs_blocked

\* The bearish shift candle on bar 0 is the only one: an entry fired on bar 0
\* itself, and the next entry fires on bar 5.
C10_Witness ==
  /\ ~IsNone(latest) /\ prev_bear = 0 /\ bar.ts.t = 5
  /\ Len(bt.trades) = 1 /\ bt.trades[1].entry_time.t = 0
  /\ IsOpen(bt) /\ Get(bt.position).entry_bar = 5


\* C11: the effective threshold of a row is its base threshold plus its
\* session penalty plus its volatility adjustment.  The confirmation count is
\* the number of the four confirmations that hold (Supertrend bullish; ADX
\* above 30 with DI+ above DI-; volume above average; 1h or 4h trend
\* bullish), so it lies in 0..4; the base is 7.0, 7.5, 8.0, 8.5, 9.0 for
\* counts 4, 3, 2, 1, 0; the penalty is 1.0 in Europe, 2.0 in Asia and 1.0 in
\* the US session; the adjustment is +0.5 for an ATR percentile above 80,
\* +0.25 above 65, -0.25 below 20 and 0 otherwise, also for a NaN percentile.
C11_Base(count) == CASE count = 4 -> 700 [] count = 3 -> 750 [] count = 2 -> 800 [] count = 1 -> 850 [] count = 0 -> 900

C11_Penalty(session) == CASE session = "Europe" -> 100 [] session = "Asia" -> 200 [] session = "US" -> 100

C11_Adjustment(p) ==
  IF p = NaN THEN 0 ELSE IF p > 8000 THEN 50 ELSE IF p > 6500 THEN 25
  ELSE IF p < 2000 THEN -25 ELSE 0

C11_Count(row) ==
  Cardinality({ k \in 1..4 :
    \/ k = 1 /\ row.st_bullish
    \/ k = 2 /\ row.adx # NaN /\ row.adx > 3000 /\ row.di_plus > row.di_minus
    \/ k = 3 /\ row.vol_above
    \/ k = 4 /\ (row.mtf_bullish \/ row.mtf4h_bullish) })

C11_EffectiveThreshold ==
  (~IsNone(frame) /\ "scores" \in DOMAIN Get(frame) /\ ~IsNone(Get(frame).scores)) =>
    LET row == Get(frame).row
        out == Get(Get(frame).scores)
    IN /\ out.long_confirms \in 0..4
       /\ out.long_confirms = C11_Count(row)
       /\ out.long_thresh = C11_Base(out.long_confirms)
       /\ row.session \in {"Europe", "Asia", "US"} =>
            out.session_penalty = C11_Penalty(row.session)
       /\ out.atr_adj = C11_Adjustment(row.atr_pctile)
       /\ out.effective_thresh = out.long_thresh + out.session_penalty + out.atr_adj

\* An Asia row with no confirmation and a percentile above 80 (9.0 + 2.0 +
\* 0.5), after precompute_all_scores.
C11_Witness ==
  /\ ~IsNone(frame) /\ "scores" \in DOMAIN Get(frame) /\ ~IsNone(Get(frame).scores)
  /\ Get(frame).row.session = "Asia"
  /\ Get(frame).row.atr_pctile = 8001
  /\ Get(Get(frame).scores).long_confirms = 0
  /\ Get(Get(frame).scores).effective_thresh = 1150

\* C12: the values of a bar do not depend on the bars after it.  Whenever a
\* bar is appended and the whole frame is recomputed, every earlier bar keeps
\* its Supertrend line and direction, longs_blocked, previous-session high
\* and low, merged multi-timeframe columns, long_score, effective_thresh and
\* tech_sl_long; so the values of bar t computed from bars 0..t are those
\* computed from bars 0..T for every T > t.
C12_PrefixStable ==
  [][ (~IsNone(frame) /\ "df" \in DOMAIN Get(frame) /\ ~IsNone(frame')) =>
        \A i \in 1..Len(Get(frame).df) : Get(frame').df[i] = Get(frame).df[i] ]_vars

\* A frame of four bars whose first two share an hour (the bucket of the
\* first grew after it was computed), with a Supertrend flip, a blocked bar
\* and a previous-session high on later bars.
C12_Witness ==
  /\ ~IsNone(frame) /\ "df" \in DOMAIN Get(frame)
  /\ LET df == Get(frame).df
     IN /\ Len(df) = 4
        /\ df[2].t = df[1].t + 1
        /\ \E i \in 2..4 : df[i].st_dir = -1 /\ df[i - 1].st_dir = 1
        /\ \E i \in 2..4 : df[i].longs_blocked
        /\ \E i \in 2..4 : ~IsNaN(df[i].prev_sess_high)
        /\ ~IsNaN(df[4].mtf.mtf1h_close)

\* C13: merge_mtf gives a base bar the coarser row before the latest coarser
\* row labelled at or before the bar's time.  The columns a bar receives were
\* therefore computed on coarser rows all of whose base bars lie in buckets
\* before the bar's own bucket: never on a bar of its own, still forming,
\* bucket nor on a later bar.  This holds for the hourly, four-hourly and
\* daily frames (labelled by the left edge) and for the weekly frame
\* (labelled by the Sunday that ends the week).
C13_Lagged(df_15m, i, rule, m) ==
  LET rows == resample(df_15m, rule)
      at == { j \in 1..Len(rows) : rows[j].label <= df_15m[i].t }
      matched == CHOOSE j \in at : \A x \in at : x <= j
  IN /\ m.upto = IF at = {} THEN 0 ELSE matched - 1
     /\ m.upto > 0 => m.bars = rows[m.upto].bars
     /\ \A j \in 1..m.upto : \A k \in rows[j].bars :
          k < i /\ BucketOf(df_15m[k].t, rule) < BucketOf(df_15m[i].t, rule)

C13_NoOwnBucket ==
  (~IsNone(frame) /\ "df" \in DOMAIN Get(frame)) =>
    LET df_15m == Get(frame).df_15m
        df == Get(frame).df
    IN \A i \in 1..Len(df) :
         /\ C13_Lagged(df_15m, i, "1h", df[i].mtf.mtf1h_ema)
         /\ C13_Lagged(df_15m, i, "4h", df[i].mtf.mtf4h_ema)
         /\ C13_Lagged(df_15m, i, "D", df[i].mtf.daily_ema)
         /\ C13_Lagged(df_15m, i, "W", df[i].mtf.weekly)
         /\ \A k \in df[i].mtf.mtf1h_ema.bars :
              (\A x \in df[i].mtf.mtf1h_ema.bars : x <= k) => df[i].mtf.mtf1h_close = df_15m[k].Close

\* A Sunday bar that has received the hourly and the weekly columns, and
\* whose hour holds a later bar as well.
C13_Witness ==
  /\ ~IsNone(frame) /\ "df" \in DOMAIN Get(frame)
  /\ LET df == Get(frame).df
     IN \E i \in 1..(Len(df) - 1) :
          /\ df[i].t % 672 >= 576
          /\ df[i + 1].t \div 4 = df[i].t \div 4
          /\ df[i].mtf.mtf1h_ema.upto > 0
          /\ df[i].mtf.weekly.upto > 0
          /\ ~IsNaN(df[i].mtf.mtf1h_close)

\* C14: a bar whose technical stop level is at or above its close (a stop
\* distance that is not positive) opens no position, in the backtest and in
\* the live path, and leaves the cooldown state, the trade count and the
\* capital as they were.
C14_BadStop(row) == FGe(row.tech_sl_long, row.Close)

C14_BacktestRejects ==
  [][ (turn = "bt" /\ turn' = "live" /\ ~IsOpen(bt) /\ C14_BadStop(Get(latest'))) =>
        /\ ~IsOpen(bt')
        /\ bt'.cooldown = bt.cooldown
        /\ bt'.trade_count = bt.trade_count
        /\ bt'.capital = bt.capital ]_vars

C14_NoEntryOnBadStop ==
  [][ /\ (turn = "bt" /\ turn' = "live" /\ ~IsOpen(bt) /\ C14_BadStop(Get(latest'))) =>
           /\ ~IsOpen(bt')
           /\ bt'.cooldown = bt.cooldown
           /\ bt'.trade_count = bt.trade_count
           /\ bt'.capital = bt.capital
      /\ (turn = "live" /\ turn' = "bt" /\ ~IsOpen(live) /\ C14_BadStop(bar)) =>
           /\ ~IsOpen(live')
           /\ live'.cooldown_bar = live.cooldown_bar
           /\ live'.cooldown_price = live.cooldown_price
           /\ live'.trade_count = live.trade_count
           /\ live'.capital = live.capital ]_vars

\* C15: a tick in which a step raised (the indicator pipeline, a database
\* write, an alert, the broadcast) leaves the PaperTrader as it was before
\* the tick: position, cooldown bar and price, bar counter, capital and
\* trade count.  pre is the PaperTrader when the tick was called.
C15_Core(pt) == <<pt.position, pt.cooldown_bar, pt.cooldown_price, pt.bar_counter, pt.capital, pt.trade_count>>

C15_FailedTickRollsBack ==
  (~IsNone(sched) /\ Get(sched).ticks["job"].pc = "idle" /\ Get(sched).ticks["job"].failed) =>
    C15_Core(live) = C15_Core(Get(sched).ticks["job"].pre)

C17_NaNBar(row) == IsNaN(row.long_score) \/ IsNaN(row.effective_thresh) \/ IsNaN(row.tech_sl_long)

C17_NaNNeverEnters ==
  [][ /\ (turn = "bt" /\ turn' = "live" /\ C17_NaNBar(Get(latest'))) => bt'.trade_count = bt.trade_count
      /\ (turn = "live" /\ turn' = "bt" /\ C17_NaNBar(bar)) => live'.trade_count = live.trade_count ]_vars
(***************************************************************************)
(* C18: the equity curve of a backtest run                                 *)
(***************************************************************************)
\* The row the loop has just processed took one of its skipping branches.
C18_Skipped ==
  /\ ~IsNone(latest)
  /\ \/ IsNaN(bar.Close)
     \/ IsNaN(bar.long_score)
     \/ is_maintenance(get_et_time(bar.ts).hour)
     \/ get_et_time(bar.ts).dow = 5

\* C18 as stated: after run over n bars the equity curve has exactly n
\* entries and entry i is the capital after bar i; every iteration appends
\* one entry, the skipped ones (missing data, maintenance, Saturday) and the
\* forced end-of-day close included, and leaves the earlier entries alone.
C18_OneEntryPerBar ==
  [][(turn = "bt" /\ turn' = "live") =>
       /\ bt'.i = bt.i + 1
       /\ Len(bt'.equity_curve) = bt'.i
       /\ bt'.equity_curve = Append(bt.equity_curve, bt'.capital)]_vars

\* An entry, its forced close at the end of the day and a skipped row after
\* it: three entries, the last two the capital after the close.
C18_Witness ==
  /\ turn = "live"
  /\ C18_Skipped
  /\ bt.i = 3
  /\ Len(bt.trades) = 1
  /\ bt.trades[1].exit_reason = "EOD_CLOSE"
  /\ bt.equity_curve = <<INITIAL_CAPITAL, bt.capital, bt.capital>>
  /\ bt.capital # INITIAL_CAPITAL

(***************************************************************************)
(* C19: the capital of a backtest run                                      *)
(***************************************************************************)
\* The capital is the initial capital plus the results of the ledger's trades.
C19_CapitalIsSum ==
  LET sum[k \in 0..Len(bt.trades)] ==
        IF k = 0 THEN 0
        ELSE sum[k - 1] + bt.trades[k].pnl_tp1 + bt.trades[k].pnl_runner
                        - bt.trades[k].costs
  IN bt.capital = INITIAL_CAPITAL + sum[Len(bt.trades)]

\* A step either leaves ledger and capital alone or appends one trade and
\* adds its result; a FULL_STOP trade takes the stop distance on every
\* contract plus the costs.
C19_Step ==
  IF bt'.trades = bt.trades THEN bt'.capital = bt.capital
  ELSE /\ Len(bt'.trades) = Len(bt.trades) + 1
       /\ LET t == bt'.trades[Len(bt'.trades)] IN
          /\ bt'.trades = Append(bt.trades, t)
          /\ bt'.capital = bt.capital + t.pnl_tp1 + t.pnl_runner - t.costs
          /\ t.exit_reason = "FULL_STOP" =>
               bt.capital - bt'.capital =
                 Pnl(Get(bt.position).sl_distance, NUM_CONTRACTS) + t.costs

C20_FullStopAt(t, stop) ==
  /\ t.exit_reason = "FULL_STOP"
  /\ t.exit_price = Round2(stop)
  /\ ~t.tp1_hit
  /\ t.pnl_tp1 = 0
  /\ t.trail_stage = 0

\* _manage_position runs on a bar whose low is at or below the stop and whose
\* high is at or above the take-profit level of a position before its
\* partial exit.
C20_BtBothLevels ==
  /\ turn = "bt" /\ turn' = "live"
  /\ ~IsNone(bt.position)
  /\ ~Get(bt.position).tp1_hit
  /\ \E c \in 1..Len(bt'.calls) : bt'.calls[c].op = "_manage_position"
  /\ Get(latest').Low <= Get(bt.position).stop_loss
  /\ Get(latest').High >= Get(bt.position).tp1_price

\* update_position runs on such a bar.
C20_LiveBothLevels ==
  /\ turn = "live" /\ turn' = "bt"
  /\ ~IsNone(live.position)
  /\ ~Get(live.position).tp1_hit
  /\ bar.Low <= Get(live.position).sl_price
  /\ bar.High >= Get(live.position).tp1_price

\* C20 as stated: on a pre-partial bar where both low <= stop_loss and
\* high >= tp1_price the stop is evaluated first: the whole position closes
\* at the stop price with exit reason FULL_STOP and the partial-exit
\* transition does not fire, in the backtest and in the live path alike.
C20_StopFirst ==
  [][/\ C20_BtBothLevels =>
          /\ IsNone(bt'.position)
          /\ Len(bt'.trades) = Len(bt.trades) + 1
          /\ C20_FullStopAt(bt'.trades[Len(bt'.trades)], Get(bt.position).stop_loss)
     /\ C20_LiveBothLevels =>
          /\ Len(live'.trade_history) = Len(live.trade_history) + 1
          /\ C20_FullStopAt(live'.trade_history[Len(live'.trade_history)],
                            Get(live.position).sl_price)
          /\ \/ IsNone(live'.position)
             \/ ~Get(live'.position).tp1_hit]_vars

\* Both drivers have met such a bar: it reached the take-profit level of the
\* trade it stopped out in either ledger.
C20_Witness ==
  /\ turn = "bt"
  /\ ~IsNone(latest)
  /\ Len(bt.trades) > 0
  /\ Len(live.trade_history) > 0
  /\ LET t == bt.trades[Len(bt.trades)]
         u == live.trade_history[Len(live.trade_history)]
     IN /\ t.exit_reason = "FULL_STOP" /\ t.exit_time = bar.ts
        /\ u.exit_reason = "FULL_STOP" /\ u.exit_time = bar.ts
        /\ Round2(bar.High) >= t.tp1_price /\ Round2(bar.Low) <= t.stop_loss
        /\ Round2(bar.High) >= u.tp1_price /\ Round2(bar.Low) <= u.sl_price

(***************************************************************************)
(* C21: the stages of the trailing stop                                    *)
(***************************************************************************)
\* The update whose arguments are upd saw a profit of at least sl_distance
\* times m / 2 on the stop ts.
C21_Saw(ts, upd, m) ==
  /\ ~IsNaN(upd.bar_close) /\ ~IsNaN(ts.sl_distance)
  /\ 2 * (upd.bar_close - ts.entry_price) >= m * ts.sl_distance

\* The stop is at or above the entry price, and from stage 2 on at or above
\* entry + 0.5 * sl_distance.
C21_Floor ==
  ~IsNone(trail) =>
    LET ts == Get(trail).ts IN
    /\ ts.stage \in 1..3
    /\ ts.trail_stop >= ts.entry_price
    /\ ts.stage >= 2 =>
         /\ ~IsNaN(ts.sl_distance)
         /\ 2 * (ts.trail_stop - ts.entry_price) >= ts.sl_distance

\* One update: the stage leaves 1 only on a profit of 1.5 * sl_distance,
\* reaches 3 only on a profit of 2.0 * sl_distance, and goes from 1 straight
\* to 3 on a profit of 2.0 * sl_distance.
C21_Step ==
  ~IsNone(trail) /\ ~IsNone(trail') /\ trail' # trail =>
    LET ts == Get(trail).ts
        new == Get(trail').ts
        upd == Get(Get(trail').upd)
    IN /\ new.stage >= ts.stage
       /\ ts.stage = 1 /\ new.stage >= 2 => C21_Saw(ts, upd, 3)
       /\ ts.stage < 3 /\ new.stage = 3 => C21_Saw(ts, upd, 4)
       /\ ts.stage = 1 /\ C21_Saw(ts, upd, 4) => new.stage = 3

\* C21 as stated: after any sequence of TrailingStop.update calls
\* trail_stop >= entry_price; stage >= 2 implies that some update saw
\* close - entry >= 1.5 * sl_distance and trail_stop >= entry + 0.5 *
\* sl_distance; stage = 3 implies that some update saw close - entry >= 2.0 *
\* sl_distance; and a single update whose close - entry >= 2.0 * sl_distance
\* moves a stage-1 stop directly to stage 3.
C21_Stages == [](C21_Floor) /\ [][C21_Step]_vars

\* A stop at stage 3 whose latest update saw twice the stop distance, held
\* at entry + 0.5 * sl_distance by an ATR that is not available.
C21_Witness ==
  /\ ~IsNone(trail) /\ ~IsNone(Get(trail).upd)
  /\ LET ts == Get(trail).ts
         upd == Get(Get(trail).upd)
     IN /\ ts.stage = 3
        /\ C21_Saw(ts, upd, 4)
        /\ IsNaN(upd.atr)
        /\ 2 * (ts.trail_stop - ts.entry_price) = ts.sl_distance

(***************************************************************************)
(* C22: the stage-3 trail                                                  *)
(***************************************************************************)
\* The update from ts to new with the arguments upd, at stage 3 with close
\* and ATR available, sets the stop to the largest of the current stop,
\* close - ATR * mult / 10, the Supertrend line when bullish, and the entry.
C22_MaxOf(ts, new, upd, mult) ==
  new.stage = 3 /\ ~IsNaN(upd.atr) /\ ~IsNaN(upd.bar_close) =>
    LET floor == IF ts.stage = 1
                 THEN Max2(ts.trail_stop, ts.entry_price + ts.sl_distance \div 2)
                 ELSE ts.trail_stop
        atr_trail == upd.bar_close - (upd.atr * mult) \div 10
        with_st == IF upd.st_bullish /\ ~IsNaN(upd.st_line)
                   THEN Max2(atr_trail, upd.st_line) ELSE atr_trail
    IN new.trail_stop = Max2(floor, Max2(with_st, ts.entry_price))

\* The part of C22 that holds: the maximum, with the multiplier of config.py.
C22_MaxWithConfiguredMult ==
  [][~IsNone(trail) /\ ~IsNone(trail') /\ trail' # trail =>
       C22_MaxOf(Get(trail).ts, Get(trail').ts, Get(Get(trail').upd),
                 TRAILING_ATR_MULT)]_vars

\* C22 as stated: at stage 3 with ATR available each update sets trail_stop
\* to max(current trail_stop, close - ATR * 1.2, the Supertrend line when
\* Supertrend is bullish, entry price); the multiplier applied is the 1.2 of
\* the module documentation.
C22_MaxWithDocumentedMult ==
  [][~IsNone(trail) /\ ~IsNone(trail') /\ trail' # trail =>
       C22_MaxOf(Get(trail).ts, Get(trail').ts, Get(Get(trail').upd), 12)]_vars

(***************************************************************************)
(* C23: the bar of the partial exit                                        *)
(***************************************************************************)
\* The runner pos just made of the pre-partial position old: one contract,
\* a trailing stop of stage 1 at the entry price.
C23_FreshRunner(old, pos) ==
  /\ pos.tp1_hit /\ pos.contracts = 1
  /\ pos.entry_price = old.entry_price /\ pos.entry_time = old.entry_time
  /\ ~IsNone(pos.trailing)
  /\ Get(pos.trailing).stage = 1
  /\ Get(pos.trailing).trail_stop = pos.entry_price

\* C23 as stated: on the bar where the partial exit fires the trailing stop
\* is neither advanced nor tested: the position is still open, as a
\* one-contract runner at stage 1, at the end of that bar even if the bar's
\* low is at or below the entry price; updates and checks of the trailing
\* stop start with the next managed bar (a runner that _manage_position or
\* update_position finds is updated with that bar and closed when the bar's
\* low is at or below the updated stop).
C23_PartialBarKeepsRunner ==
  [][/\ (turn = "bt" /\ ~IsNone(bt.position) /\ ~Get(bt.position).tp1_hit
           /\ ~FLe(Get(latest').Low, Get(bt.position).stop_loss)
           /\ FGe(Get(latest').High, Get(bt.position).tp1_price)
           /\ \E c \in 1..Len(bt'.calls) : bt'.calls[c].op = "_manage_position")
         => /\ ~IsNone(bt'.position)
            /\ Len(bt'.trades) = Len(bt.trades)
            /\ C23_FreshRunner(Get(bt.position), Get(bt'.position))
     /\ (turn = "live" /\ ~IsNone(live.position) /\ ~Get(live.position).tp1_hit
           /\ bar.Low > Get(live.position).sl_price
           /\ bar.High >= Get(live.position).tp1_price)
         => /\ ~IsNone(live'.position)
            /\ Len(live'.trade_history) = Len(live.trade_history)
            /\ C23_FreshRunner(Get(live.position), Get(live'.position))
     /\ (turn = "bt" /\ ~IsNone(bt.position) /\ Get(bt.position).tp1_hit
           /\ \E c \in 1..Len(bt'.calls) : bt'.calls[c].op = "_manage_position")
         => LET t == TrailingStop_update(Get(Get(bt.position).trailing),
                       Get(latest').Close, Get(latest').atr,
                       Get(latest').st_line, Get(latest').st_bullish)
            IN IF FLe(Get(latest').Low, t.trail_stop)
               THEN IsNone(bt'.position) /\ Len(bt'.trades) = Len(bt.trades) + 1
               ELSE ~IsNone(bt'.position) /\ Get(bt'.position).trailing = Some(t)
    ]_vars

\* Both drivers hold a fresh runner after a bar whose low was at the entry
\* price.
C23_Witness ==
  /\ turn = "bt"
  /\ ~IsNone(latest) /\ ~IsNone(bt.position) /\ ~IsNone(live.position)
  /\ bar.Low <= Get(bt.position).entry_price
  /\ bar.High >= Get(bt.position).tp1_price
  /\ bar.ts.t = Get(bt.position).entry_bar + 1
  /\ C23_FreshRunner(Get(bt.position), Get(bt.position))
  /\ C23_FreshRunner(Get(live.position), Get(live.position))

(***************************************************************************)
(* C24: the direction of the Supertrend                                    *)
(***************************************************************************)
\* Bar i of the Supertrend frame keeps or flips the direction of bar i - 1
\* by the band of that direction, and its line is the band of its own
\* direction.
C24_ByDirection(i) ==
  LET df == Get(frame).df
      close == Get(frame).df_15m[i].Close
  IN /\ df[i].st_line = IF df[i].direction = -1 THEN df[i].final_lower
                        ELSE df[i].final_upper
     /\ df[i - 1].direction = -1 /\ df[i].direction = 1 => close < df[i].final_lower
     /\ df[i - 1].direction = 1 /\ df[i].direction = -1 => close > df[i].final_upper

\* The part of C24 that holds: every bar whose predecessor has two different
\* final bands.
C24_WhenBandsDiffer ==
  ~IsNone(frame) =>
    \A i \in 2..Len(Get(frame).df) :
      Get(frame).df[i - 1].final_upper # Get(frame).df[i - 1].final_lower =>
        C24_ByDirection(i)

\* C24 as stated: in calc_supertrend, for every bar i >= 1, a bullish
\* direction[i-1] becomes bearish only when close[i] < final_lower[i], a
\* bearish one becomes bullish only when close[i] > final_upper[i], and
\* st_line[i] is the final lower band when bullish and the final upper band
\* when bearish; for all inputs, flat bars with coinciding bands included.
C24_FlipsOnlyOnCross ==
  ~IsNone(frame) => \A i \in 2..Len(Get(frame).df) : C24_ByDirection(i)

(***************************************************************************)
(* C25: the previous day's levels                                          *)
(***************************************************************************)
\* Every base bar of the frame that has lag daily rows before its own day's
\* carries the high, low and close of the daily row lag rows before its own.
C25_LevelsOfDay(lag) ==
  ~IsNone(frame) /\ Len(Get(frame).df) = Len(Get(frame).df_15m) =>
    LET df_15m == Get(frame).df_15m
        df_d == resample(df_15m, "D")
    IN \A i \in 1..Len(df_15m) : \A j \in 1..Len(df_d) :
         df_d[j].bucket = BucketOf(df_15m[i].t, "D") /\ j > lag =>
           /\ Get(frame).df[i].mtf.prev_day_high = df_d[j - lag].High
           /\ Get(frame).df[i].mtf.prev_day_low = df_d[j - lag].Low
           /\ Get(frame).df[i].mtf.prev_day_close = df_d[j - lag].Close

\* What the code does: the levels are those of the day before the previous
\* one (the daily row two rows before the bar's own).
C25_DayBeforePrevious == C25_LevelsOfDay(2)

\* C25 as stated: the prev_day_high / prev_day_low / prev_day_close merged
\* onto a base bar lying in daily bucket D are the high / low / close of daily
\* bucket D-1, the most recent completed day before the bar's own day.
C25_PreviousDay == C25_LevelsOfDay(1)

(***************************************************************************)
(* C26: the cooldown of the live path                                      *)
(***************************************************************************)
\* tick runs on a bar that passes every other entry condition while the
\* PaperTrader is flat and has entered before.
C26_FlatTickOnSignal ==
  /\ turn = "live" /\ turn' = "bt"
  /\ ~IsOpen(live) /\ Len(live.trade_history) >= 1
  /\ PassesOtherGates(bar)

\* What the code does: the cooldown is measured on _bar_counter, which a tick
\* advances only in update_position (a position is open) and in the cooldown
\* step of check_entry (a flat trader with a signal that passed the filters
\* before it); a tick on a flat trader without a signal leaves it alone.
C26_CountsOwnCounter ==
  [][/\ C26_FlatTickOnSignal =>
          /\ live'.bar_counter = live.bar_counter + 1
          /\ (live'.trade_count = live.trade_count + 1) <=>
               \/ live.bar_counter + 1 - live.cooldown_bar >= COOLDOWN_BARS
               \/ ~(live.cooldown_price > 0)
               \/ PctMoveReached(bar.Close, live.cooldown_price)
     /\ (turn = "live" /\ turn' = "bt" /\ ~IsOpen(live)
           /\ bar.long_score < bar.effective_thresh)
         => live'.bar_counter = live.bar_counter
    ]_vars

\* C26 as stated: check_entry treats the cooldown as expired whenever at
\* least COOLDOWN_BARS (8) bars have been processed since the last entry,
\* counting every bar delivered by a tick, the bars without a position and
\* without a signal included.
C26_CountsEveryBar ==
  [][C26_FlatTickOnSignal /\
     bar.ts.t - live.trade_history[Len(live.trade_history)].entry_time.t >= COOLDOWN_BARS
       => live'.trade_count = live.trade_count + 1]_vars

(***************************************************************************)
(* C27: the maintenance hour and Saturday                                  *)
(***************************************************************************)
\* An iteration of run over a row with data whose US/Eastern hour is 17 or
\* whose US/Eastern weekday is Saturday.
C27_ExcludedBar ==
  /\ turn = "bt" /\ turn' = "live"
  /\ ~IsNaN(Get(latest').Close) /\ ~IsNaN(Get(latest').long_score)
  /\ \/ get_et_time(Get(latest').ts).hour = 17
     \/ get_et_time(Get(latest').ts).dow = 5

\* The iteration calls neither _manage_position nor the entry, and leaves
\* position, cooldown, ledger, trade count and capital as they were.
C27_Untouched ==
  /\ bt'.calls = <<>>
  /\ bt'.position = bt.position
  /\ bt'.cooldown = bt.cooldown
  /\ bt'.trades = bt.trades
  /\ bt'.trade_count = bt.trade_count
  /\ bt'.capital = bt.capital

\* The forced close applies to the row: USE_EOD_CLOSE is set, the row is at
\* or after 16:45 of hour 16 and a position is open.
C27_ForcedClose ==
  /\ use_eod_close
  /\ is_eod(get_et_time(Get(latest').ts).hour, get_et_time(Get(latest').ts).minute)
  /\ ~IsNone(bt.position)

C28_Shape(position) ==
  IsNone(position) \/
    LET pos == Get(position) IN
    \/ pos.contracts = 2 /\ ~pos.tp1_hit /\ IsNone(pos.trailing)
    \/ pos.contracts = 1 /\ pos.tp1_hit /\ ~IsNone(pos.trailing)

\* One step of a driver from the position old to the position new; closed
\* says that the step appended a trade to the ledger.  A close needs an open
\* position and ends flat or, through flat, in a newly entered pre-partial
\* position; without a close a flat driver stays flat or enters pre-partial,
\* and an open position stays the same position and keeps tp1_hit once set.
C28_Transition(old, new, closed) ==
  IF closed
  THEN /\ ~IsNone(old)
       /\ IsNone(new) \/ (~Get(new).tp1_hit /\ Get(new).entry_time # Get(old).entry_time)
  ELSE /\ IsNone(old) => IsNone(new) \/ ~Get(new).tp1_hit
       /\ ~IsNone(old) =>
            /\ ~IsNone(new)
            /\ Get(new).entry_time = Get(old).entry_time
            /\ Get(old).tp1_hit => Get(new).tp1_hit

\* C28 as stated: while a position is open it has exactly one of two shapes,
\* contracts = 2 with tp1_hit false and no TrailingStop, or contracts = 1 with
\* tp1_hit true and a TrailingStop; tp1_hit never returns from true to false;
\* the only transitions are Flat to pre-partial (entry), pre-partial to
\* runner (take-profit), pre-partial to Flat and runner to Flat (close); Flat
\* never goes directly to runner.  For the backtest and the live position.
C28_TwoShapes ==
  /\ [](C28_Shape(bt.position) /\ C28_Shape(live.position))
  /\ [][/\ C28_Transition(bt.position, bt'.position, Len(bt'.trades) > Len(bt.trades))
        /\ C28_Transition(live.position, live'.position,
                          Len(live'.trade_history) > Len(live.trade_history))]_vars

\* Both drivers hold a runner whose trailing stop has left stage 1.
C28_Witness ==
  /\ ~IsNone(bt.position) /\ ~IsNone(live.position)
  /\ Get(bt.position).tp1_hit /\ Get(live.position).tp1_hit
  /\ Get(bt.position).contracts = 1 /\ Get(live.position).contracts = 1
  /\ Get(Get(bt.position).trailing).stage >= 2
  /\ Get(Get(live.position).trailing).stage >= 2

(***************************************************************************)
(* C29: a tick without a new bar                                           *)
(***************************************************************************)
\* A tick resumes from data_feed.update() without a new bar: the latest bar
\* of the feed is the one an earlier tick has processed.
C29_NoNewBar ==
  /\ ~IsNone(sched) /\ ~IsNone(latest)
  /\ latest' = latest
  /\ \E k \in TickCallers :
       Get(sched).ticks[k].pc = "update" /\ Get(sched').ticks[k].pc # "update"

\* C29 as stated: each bar is applied to the live position state at most
\* once: a tick in which the data feed delivers no new bar leaves
\* PaperTrader.position, its trailing stop, the cooldown state and the capital
\* unchanged.
C29_BarAppliedOnce ==
  [][C29_NoNewBar =>
       /\ live'.position = live.position
       /\ live'.cooldown_bar = live.cooldown_bar
       /\ live'.cooldown_price = live.cooldown_price
       /\ live'.capital = live.capital]_vars

(***************************************************************************)
(* C30: one bar closes or opens, never both                                *)
(***************************************************************************)
\* The backtest half: a bar of BacktestEngine.run that appends a trade to
\* the ledger opens no position (management and entry are exclusive
\* branches of the loop).
C30_BacktestExclusive ==
  [][Len(bt'.trades) > Len(bt.trades) =>
       /\ bt'.trade_count = bt.trade_count
       /\ IsNone(bt'.position)]_vars

\* C30 as stated: on any single bar at most one of {a position is closed, a
\* position is opened} happens, both in BacktestEngine.run and in one
\* TradingScheduler.tick.
C30_CloseXorOpen ==
  [][/\ Len(bt'.trades) > Len(bt.trades) => bt'.trade_count = bt.trade_count
     /\ Len(live'.trade_history) > Len(live.trade_history) =>
          live'.trade_count = live.trade_count]_vars

====
